---- MODULE Spec2Model ----
(***************************************************************************)
(* Model of the action-execution engine of web-runner-mcp                  *)
(* (src/playwright_handler.py): run_playwright_automation_async, the step  *)
(* loop of execute_actions_async and the breadth-first frame search of     *)
(* find_element_dynamically / find_all_elements_dynamically.               *)
(*                                                                         *)
(* A scope is [page, path]: the top-level page it belongs to and the chain *)
(* of iframe indexes leading to it (<<>> is the page itself).  The browser *)
(* is the environment: what a selector matches, how long a search may run, *)
(* and how a host operation ends are chosen nondeterministically per step. *)
(*                                                                         *)
(* Further specifications follow one call at a time (variable call):       *)
(* SpecResolver the frame search, SpecPayload the attribute steps,         *)
(* SpecUtils the PDF download and extraction of utils.py, SpecRun one run  *)
(* from the adapter (main.py, web_runner_mcp_server.py) to its exit,       *)
(* SpecFanOut the concurrent sub-operations of the multi-target steps,     *)
(* SpecStepError the except clause of a step, and SpecSearch the frame     *)
(* search await by await with its clock (FairSearch: with fairness).       *)
(***************************************************************************)
EXTENDS Integers, Sequences, FiniteSets, TLC

\* ---------------------------------------------------------------- bounds
MaxSteps == 2
MaxPages == 1
MaxChildren == 2
TreeDepth == 3
MaxBudget == 4
MaxMatches == 2
MaxLinks == 2
MaxPdfPages == 2
MaxUrls == 6
MaxFaults == 1
DYNAMIC_SEARCH_MAX_DEPTH == 2

\* ------------------------------------------------------------ vocabulary
None == "<None>"
Overall == 0
NoScope == [page |-> -1, path |-> <<>>]

single_element_required_actions ==
  {"click", "input", "hover", "get_inner_text", "get_text_content", "get_inner_html",
   "get_attribute", "wait_visible", "select_option", "scroll_to_element"}

multiple_elements_actions == {"get_all_attributes", "get_all_text_contents"}

whole_page_actions == {"wait_page_load", "sleep", "scroll_page_to_bottom"}

known_actions ==
  {"click", "input", "hover", "get_inner_text", "get_text_content", "get_inner_html",
   "get_attribute", "get_all_attributes", "get_all_text_contents", "wait_visible",
   "select_option", "screenshot", "scroll_page_to_bottom", "scroll_to_element",
   "wait_page_load", "sleep", "switch_to_iframe", "switch_to_parent_frame"}

\* str.lower() on the action tags, attribute names and URLs that occur in the
\* inputs below
Lower(s) ==
  CASE s = "Click" -> "click"
    [] s = "SLEEP" -> "sleep"
    [] s = "PDF" -> "pdf"
    [] s = "http://h/b.PDF" -> "http://h/b.pdf"
    [] OTHER -> s

\* Python truthiness of an optional string field: None and "" are falsy
Falsy(v) == v = None \/ v = ""

\* ---------------------------------------------------------------- inputs
Step(a, sel, ifr, val, attr) ==
  [action |-> a, selector |-> sel, iframe_selector |-> ifr, value |-> val, attribute_name |-> attr]

StepSet ==
  { Step("switch_to_iframe", None, "#frame1", None, None),
    Step("switch_to_iframe", None, "#nope", None, None),
    Step("switch_to_iframe", None, None, None, None),
    Step("switch_to_parent_frame", None, None, None, None),
    Step("wait_page_load", None, None, None, None),
    Step("SLEEP", None, None, None, None),
    Step("scroll_page_to_bottom", None, None, None, None),
    Step("click", "#q", None, None, None),
    Step("Click", "#q", None, None, None),
    Step("input", "#q", None, "foo", None),
    Step("input", "#q", None, None, None),
    Step("input", None, None, "foo", None),
    Step("hover", "#q", None, None, None),
    Step("get_attribute", "#q", None, None, "id"),
    Step("get_attribute", "#q", None, None, None),
    Step("get_all_attributes", "#q", None, None, "id"),
    Step("get_all_attributes", "#q", None, None, None),
    Step("get_all_text_contents", "#q", None, None, None),
    Step("get_all_text_contents", None, None, None, None),
    Step("screenshot", "#q", None, None, None),
    Step("screenshot", "", None, None, None),
    Step("screenshot", None, None, None, None),
    Step("foo", "#q", None, None, None) }

RECURSIVE SeqsUpTo(_, _)
SeqsUpTo(S, n) ==
  IF n = 0 THEN { <<>> }
  ELSE LET shorter == SeqsUpTo(S, n - 1)
       IN shorter \cup { Append(s, x) : s \in { t \in shorter : Len(t) = n - 1 }, x \in S }

\* ----------------------------------------------------- the frame tree (DOM)
\* number of visible iframes directly inside the document at the given path
NumChildren(path) ==
  IF Len(path) >= TreeDepth THEN 0
  ELSE IF Len(path) = 0 THEN MaxChildren ELSE 1

RECURSIVE PathsFrom(_, _)
PathsFrom(path, depth) ==
  {path} \cup
  (IF depth = 0 THEN {}
   ELSE UNION { PathsFrom(Append(path, c), depth - 1) : c \in 1..NumChildren(path) })

FramePaths == PathsFrom(<<>>, TreeDepth)

\* the iframe index an iframe_selector designates in a document (0: none)
IframeIndex(sel) ==
  CASE sel = "#frame1" -> 1
    [] sel = "#frame2" -> 2
    [] OTHER -> 0

\* scope.frame_locator(nth=c)
frame_locator(scope, c) == [page |-> scope.page, path |-> Append(scope.path, c)]

PageScope(p) == [page |-> p, path |-> <<>>]

isFrameLocator(scope) == scope.path # <<>>

\* ------------------------------------------------------- ScopeResolver
\* visible iframes of a scope, in enumeration order, that are not yet visited
NewChildren(scope, visited_scope_ids) ==
  SelectSeq([c \in 1..NumChildren(scope.path) |-> frame_locator(scope, c)],
            LAMBDA k : k \notin visited_scope_ids)

Entries(scopes, depth) == [k \in 1..Len(scopes) |-> [scope |-> scopes[k], depth |-> depth]]

SeqToSet(s) == { s[k] : k \in 1..Len(s) }

\* variant: the children of a scope at depth max_depth are still enqueued
MayDescendInclusive(current_depth, max_depth) == current_depth <= max_depth

\* "if current_depth < max_depth:" before the iframes of a scope are enumerated
MayDescend(current_depth, max_depth) == current_depth < max_depth

\* variant: the children of a scope are searched before its siblings
RECURSIVE FindLoopDepthFirst(_, _, _, _, _, _)
FindLoopDepthFirst(queue, visited_scope_ids, examined, matches, budget, max_depth) ==
  IF queue = <<>> \/ Len(examined) >= budget
  THEN [scope |-> NoScope, examined |-> examined, queue |-> queue]
  ELSE LET current_scope == Head(queue).scope
           current_depth == Head(queue).depth
           seen == Append(examined, current_scope)
       IN IF matches[current_scope] > 0
          THEN [scope |-> current_scope, examined |-> seen, queue |-> Tail(queue)]
          ELSE IF MayDescend(current_depth, max_depth) /\ Len(seen) < budget
               THEN LET kids == NewChildren(current_scope, visited_scope_ids)
                    IN FindLoopDepthFirst(Entries(kids, current_depth + 1) \o Tail(queue),
                                visited_scope_ids \cup SeqToSet(kids),
                                seen, matches, budget, max_depth)
               ELSE FindLoopDepthFirst(Tail(queue), visited_scope_ids, seen, matches, budget, max_depth)

\* the while-loop of find_element_dynamically.  matches: for each scope, how
\* many elements the selector reaches there within the per-scope wait;
\* budget: how many scopes can be examined before the overall timeout.
RECURSIVE FindLoop(_, _, _, _, _, _)
FindLoop(queue, visited_scope_ids, examined, matches, budget, max_depth) ==
  IF queue = <<>> \/ Len(examined) >= budget
  THEN [scope |-> NoScope, examined |-> examined, queue |-> queue]
  ELSE LET current_scope == Head(queue).scope
           current_depth == Head(queue).depth
           seen == Append(examined, current_scope)
       IN IF matches[current_scope] > 0
          THEN [scope |-> current_scope, examined |-> seen, queue |-> Tail(queue)]
          ELSE IF MayDescend(current_depth, max_depth) /\ Len(seen) < budget
               THEN LET kids == NewChildren(current_scope, visited_scope_ids)
                    IN FindLoop(Tail(queue) \o Entries(kids, current_depth + 1),
                                visited_scope_ids \cup SeqToSet(kids),
                                seen, matches, budget, max_depth)
               ELSE FindLoop(Tail(queue), visited_scope_ids, seen, matches, budget, max_depth)

\* variant: the search starts at the top-level page of the start scope
find_element_from_page(base_locator, matches, budget, max_depth) ==
  FindLoop(<<[scope |-> PageScope(base_locator.page), depth |-> 0]>>,
           {PageScope(base_locator.page)}, <<>>, matches, budget, max_depth)

find_element_dynamically(base_locator, matches, budget, max_depth) ==
  FindLoop(<<[scope |-> base_locator, depth |-> 0]>>, {base_locator}, <<>>,
           matches, budget, max_depth)

\* variant: only the first element of a scope is collected
ElementsInFirstOnly(current_scope, matches) ==
  [k \in 1..(IF matches[current_scope] > 0 THEN 1 ELSE 0) |-> [elem |-> k, scope |-> current_scope]]

\* "for elem in elements_in_scope: found_elements.append((elem, current_scope))"
ElementsIn(current_scope, matches) ==
  [k \in 1..matches[current_scope] |-> [elem |-> k, scope |-> current_scope]]

\* variant: running out of time drops what was collected
RECURSIVE FindAllLoopAbort(_, _, _, _, _, _, _)
FindAllLoopAbort(queue, visited_scope_ids, examined, found_elements, matches, budget, max_depth) ==
  IF queue = <<>>
  THEN [found_elements |-> found_elements, examined |-> examined, queue |-> queue]
  ELSE IF Len(examined) >= budget
  THEN [found_elements |-> <<>>, examined |-> examined, queue |-> queue]
  ELSE LET current_scope == Head(queue).scope
           current_depth == Head(queue).depth
           seen == Append(examined, current_scope)
           found == found_elements \o ElementsIn(current_scope, matches)
       IN IF MayDescend(current_depth, max_depth) /\ Len(seen) < budget
          THEN LET kids == NewChildren(current_scope, visited_scope_ids)
               IN FindAllLoopAbort(Tail(queue) \o Entries(kids, current_depth + 1),
                              visited_scope_ids \cup SeqToSet(kids),
                              seen, found, matches, budget, max_depth)
          ELSE FindAllLoopAbort(Tail(queue), visited_scope_ids, seen, found, matches, budget, max_depth)

\* the while-loop of find_all_elements_dynamically: every match of every
\* examined scope is collected, tagged with its scope
RECURSIVE FindAllLoop(_, _, _, _, _, _, _)
FindAllLoop(queue, visited_scope_ids, examined, found_elements, matches, budget, max_depth) ==
  IF queue = <<>> \/ Len(examined) >= budget
  THEN [found_elements |-> found_elements, examined |-> examined, queue |-> queue]
  ELSE LET current_scope == Head(queue).scope
           current_depth == Head(queue).depth
           seen == Append(examined, current_scope)
           found == found_elements \o ElementsIn(current_scope, matches)
       IN IF MayDescend(current_depth, max_depth) /\ Len(seen) < budget
          THEN LET kids == NewChildren(current_scope, visited_scope_ids)
               IN FindAllLoop(Tail(queue) \o Entries(kids, current_depth + 1),
                              visited_scope_ids \cup SeqToSet(kids),
                              seen, found, matches, budget, max_depth)
          ELSE FindAllLoop(Tail(queue), visited_scope_ids, seen, found, matches, budget, max_depth)

find_all_elements_dynamically(base_locator, matches, budget, max_depth) ==
  FindAllLoop(<<[scope |-> base_locator, depth |-> 0]>>, {base_locator}, <<>>, <<>>,
              matches, budget, max_depth)

\* what the environment may answer to one resolver call on a page
ScopesOfPage(p) == { [page |-> p, path |-> path] : path \in FramePaths }

\* the ways up to n elements matching a selector can lie in the scopes of a page
RECURSIVE MatchCounts(_, _)
MatchCounts(p, n) ==
  IF n = 0 THEN { [s \in ScopesOfPage(p) |-> 0] }
  ELSE LET fewer == MatchCounts(p, n - 1)
       IN fewer \cup { [m EXCEPT ![s] = @ + 1] : m \in fewer, s \in ScopesOfPage(p) }

MatchSets(p) == MatchCounts(p, MaxMatches)

Budgets == 0..MaxBudget

AllScopes == UNION { ScopesOfPage(p) : p \in 0..MaxPages }

\* every answer a single-element search started at a scope can give, over all
\* the ways the page may look and all the time the search may be given
FindOutcomes ==
  [s \in AllScopes |->
     { find_element_dynamically(s, matches, budget, DYNAMIC_SEARCH_MAX_DEPTH) :
         matches \in MatchSets(s.page), budget \in Budgets }]

\* the same for the all-elements search
FindAllOutcomes ==
  [s \in AllScopes |->
     { find_all_elements_dynamically(s, matches, budget, DYNAMIC_SEARCH_MAX_DEPTH) :
         matches \in MatchSets(s.page), budget \in Budgets }]

\* ------------------------------------------------------------------ state
VARIABLES
  pc,              \* "start": before setup, "loop": in the step loop, "done": returned
  actions,         \* the ActionStep list of the run
  i,               \* index of the enumerate() loop (0-based)
  results,         \* execute_actions_async: results
  current_target,  \* execute_actions_async: current_target
  root_page,       \* execute_actions_async: root_page
  iframe_stack,    \* execute_actions_async: iframe_stack
  pages_opened,    \* number of top-level documents opened by clicks so far
  all_success,     \* run_playwright_automation_async: all_success
  final_results,   \* run_playwright_automation_async: final_results
  last,            \* what happened in the most recent step (history)
  call             \* one call of a helper on its own: its arguments and what it returned

vars == <<pc, actions, i, results, current_target, root_page, iframe_stack,
          pages_opened, all_success, final_results, last, call>>

Record(step_num, status, action) == [step |-> step_num, status |-> status, action |-> action]

ScopeState(cur, stack, root) == [current_target |-> cur, iframe_stack |-> stack, root_page |-> root]

NoCall == [fn |-> "none", done |-> FALSE]

NoStep ==
  [step |-> 0, action |-> "", pre |-> ScopeState(PageScope(0), <<>>, 0),
   branch |-> "none", resolver |-> "none", examined |-> <<>>, found |-> NoScope, count |-> 0,
   list_key |-> "none",
   mid |-> ScopeState(PageScope(0), <<>>, 0),
   op |-> "none", page_event |-> "none", load |-> "none", halted |-> FALSE]

Init ==
  /\ pc = "start"
  /\ actions \in SeqsUpTo(StepSet, MaxSteps)
  /\ i = 0
  /\ results = <<>>
  /\ current_target = PageScope(0)
  /\ root_page = 0
  /\ iframe_stack = <<>>
  /\ pages_opened = 0
  /\ all_success = FALSE
  /\ final_results = <<>>
  /\ last = NoStep
  /\ call = NoCall

\* --------------------------------------------------- pieces of the step loop
InLoop == pc = "loop" /\ i < Len(actions)

step_data == actions[i + 1]

\* variant: the record carries the 0-based loop index
step_num_zero_based == i

step_num == i + 1
action == Lower(step_data.action)
selector == step_data.selector

Pre == ScopeState(current_target, iframe_stack, root_page)

\* variant: the membership test is inverted
PushIfAbsentInverted(stack, scope) ==
  IF scope \in SeqToSet(stack) THEN Append(stack, scope) ELSE stack

\* "if id(current_target) not in [id(s) for s in iframe_stack]: iframe_stack.append(current_target)"
PushIfAbsent(stack, scope) ==
  IF scope \notin SeqToSet(stack) THEN Append(stack, scope) ELSE stack

\* variant: the scope is promoted but the previous scope is not kept
PromoteWithoutPush(cur, stack, found_scope) ==
  [current_target |-> found_scope, iframe_stack |-> stack]

\* variant: the scopes between the previous scope and the found one are
\* pushed as well
PromotePushingPath(cur, stack, found_scope) ==
  IF found_scope # cur
  THEN [current_target |-> found_scope,
        iframe_stack |-> stack \o [j \in 1..(Len(found_scope.path) - Len(cur.path)) |->
                                     [page |-> cur.page,
                                      path |-> SubSeq(found_scope.path, 1, Len(cur.path) + j - 1)]]]
  ELSE [current_target |-> cur, iframe_stack |-> stack]

\* scope update after a successful single-element search
Promote(cur, stack, found_scope) ==
  IF found_scope # cur
  THEN [current_target |-> found_scope, iframe_stack |-> PushIfAbsent(stack, cur)]
  ELSE [current_target |-> cur, iframe_stack |-> stack]

\* variant: the parent is read from the stack but not removed from it
SwitchToParentPeek(cur, stack, root) ==
  IF stack = <<>>
  THEN [status |-> "warning", current_target |-> cur, iframe_stack |-> stack]
  ELSE [status |-> "success", current_target |-> stack[Len(stack)], iframe_stack |-> stack]

\* the switch_to_parent_frame branch
SwitchToParent(cur, stack, root) ==
  IF stack = <<>>
  THEN [status |-> "warning",
        current_target |-> IF isFrameLocator(cur) THEN PageScope(root) ELSE cur,
        iframe_stack |-> stack]
  ELSE [status |-> "success",
        current_target |-> stack[Len(stack)],
        iframe_stack |-> SubSeq(stack, 1, Len(stack) - 1)]

\* the click branch: op is how element.click() ended, page_event whether
\* expect_page delivered a page, load how the new page's load wait ended.
\* "except PlaywrightTimeoutError" encloses the click itself.
ClickOutcome(op, page_event, load) ==
  IF op = "error" THEN [status |-> "error", adopt |-> FALSE]
  ELSE IF op = "timeout" THEN [status |-> "success", adopt |-> FALSE]
  ELSE IF page_event = "none" THEN [status |-> "success", adopt |-> FALSE]
  ELSE IF load = "error" THEN [status |-> "error", adopt |-> FALSE]
  ELSE [status |-> "success", adopt |-> TRUE]

\* field checks made inside an action branch, after the element search
MissingField(act, sd) ==
  \/ act = "input" /\ sd.value = None
  \/ act \in {"get_attribute", "get_all_attributes"} /\ Falsy(sd.attribute_name)

\* a host operation on the resolved element, under the step's timeout
ElementOutcome(op) == IF op = "ok" THEN "success" ELSE "error"

\* the ways the host can answer the operations of one step
HostRuns(act, sd) ==
  IF MissingField(act, sd) THEN { [op |-> "none", page_event |-> "none", load |-> "none"] }
  ELSE IF act = "click"
  THEN { [op |-> "ok", page_event |-> "none", load |-> "none"],
         [op |-> "timeout", page_event |-> "none", load |-> "none"],
         [op |-> "error", page_event |-> "none", load |-> "none"] }
       \cup (IF pages_opened < MaxPages
             THEN { [op |-> "ok", page_event |-> "opened", load |-> l] : l \in {"ok", "timeout", "error"} }
             ELSE {})
  ELSE { [op |-> o, page_event |-> "none", load |-> "none"] : o \in {"ok", "timeout", "error"} }

\* append one record and go on with the next step
Continue(status, cur, stack, root, opened, ghost) ==
  /\ results' = Append(results, Record(step_num, status, action))
  /\ current_target' = cur
  /\ iframe_stack' = stack
  /\ root_page' = root
  /\ pages_opened' = opened
  /\ i' = i + 1
  /\ last' = [ghost EXCEPT !.halted = FALSE]
  /\ UNCHANGED <<call, pc, actions, all_success, final_results>>

\* variant: the error record is appended and the loop goes on
HaltGoesOn(cur, stack, ghost) ==
  /\ results' = Append(results, Record(step_num, "error", action))
  /\ current_target' = cur
  /\ iframe_stack' = stack
  /\ i' = i + 1
  /\ last' = [ghost EXCEPT !.halted = TRUE]
  /\ UNCHANGED <<call, pc, actions, root_page, pages_opened, all_success, final_results>>

\* append one error record and "return False, results"
Halt(cur, stack, ghost) ==
  /\ results' = Append(results, Record(step_num, "error", action))
  /\ current_target' = cur
  /\ iframe_stack' = stack
  /\ all_success' = FALSE
  /\ final_results' = results'
  /\ pc' = "done"
  /\ last' = [ghost EXCEPT !.halted = TRUE]
  /\ UNCHANGED <<call, actions, i, root_page, pages_opened>>

Ghost(branch) ==
  [NoStep EXCEPT !.step = step_num, !.action = action, !.branch = branch, !.pre = Pre, !.mid = Pre]

\* variant: the empty search result is not detected
NotFoundIgnored(r) == FALSE

\* "if not element or not found_scope": the search came back empty
NotFound(r) == r.scope = NoScope

\* variant: the scope stack of the old document survives the new document
AdoptNewPageKeepStack(new_page, stack) ==
  [current_target |-> PageScope(new_page), iframe_stack |-> stack, root_page |-> new_page]

\* a click opened a new top-level document: it becomes root page and scope
AdoptNewPage(new_page, stack) ==
  [current_target |-> PageScope(new_page), iframe_stack |-> <<>>, root_page |-> new_page]

\* variant: no record is synthesized for a failure outside the step loop
OnOverallErrorSilent(fr) == fr

\* except-branch of run_playwright_automation_async: the synthesized record
OnOverallError(fr) ==
  IF fr = <<>> \/ fr[Len(fr)].status # "error"
  THEN Append(fr, Record(Overall, "error", ""))
  ELSE fr

\* ------------------------------------------------------------ the actions
\* run_playwright_automation_async up to the call of execute_actions_async
Setup ==
  /\ pc = "start"
  /\ \E outcome \in {"ok", "fail"} :
       IF outcome = "ok"
       THEN /\ pc' = "loop"
            /\ UNCHANGED <<call, actions, i, results, current_target, root_page, iframe_stack,
                           pages_opened, all_success, final_results, last>>
       ELSE /\ final_results' = OnOverallError(final_results)
            /\ all_success' = FALSE
            /\ pc' = "done"
            /\ UNCHANGED <<call, actions, i, results, current_target, root_page, iframe_stack,
                           pages_opened, last>>

\* the loop ran to its end: "return True, results"
LoopExit ==
  /\ pc = "loop" /\ i = Len(actions)
  /\ all_success' = TRUE
  /\ final_results' = results
  /\ pc' = "done"
  /\ UNCHANGED <<call, actions, i, results, current_target, root_page, iframe_stack, pages_opened, last>>

\* the root page is closed or its title cannot be read at the start of a step
TargetInfoError ==
  /\ InLoop
  /\ Halt(current_target, iframe_stack, Ghost("target_info"))

SwitchToIframe ==
  /\ InLoop /\ action = "switch_to_iframe"
  /\ IF Falsy(step_data.iframe_selector)
     THEN Halt(current_target, iframe_stack, Ghost("switch_to_iframe"))
     ELSE LET c == IframeIndex(step_data.iframe_selector)
              target_frame_locator == frame_locator(current_target, c)
              waits == IF c \in 1..NumChildren(current_target.path)
                       THEN {"ok", "timeout", "error"} ELSE {"timeout", "error"}
          IN \E w \in waits :
               IF w = "ok"
               THEN Continue("success", target_frame_locator,
                             PushIfAbsent(iframe_stack, current_target), root_page, pages_opened,
                             [Ghost("switch_to_iframe") EXCEPT !.op = w])
               ELSE Halt(current_target, iframe_stack, [Ghost("switch_to_iframe") EXCEPT !.op = w])

SwitchToParentFrame ==
  /\ InLoop /\ action = "switch_to_parent_frame"
  /\ LET r == SwitchToParent(current_target, iframe_stack, root_page)
     IN Continue(r.status, r.current_target, r.iframe_stack, root_page, pages_opened, Ghost("switch_to_parent_frame"))

\* variant: a whole-document action moves the scope back to the root document
WholeDocumentOnRoot ==
  /\ InLoop /\ action \in whole_page_actions
  /\ \E op \in (IF action = "sleep" THEN {"ok"} ELSE {"ok", "timeout", "error"}) :
       IF op = "ok"
       THEN Continue("success", PageScope(root_page), <<>>, root_page, pages_opened,
                     [Ghost("whole_document") EXCEPT !.op = op])
       ELSE Halt(PageScope(root_page), <<>>, [Ghost("whole_document") EXCEPT !.op = op])

WholeDocument ==
  /\ InLoop /\ action \in whole_page_actions
  /\ \E op \in (IF action = "sleep" THEN {"ok"} ELSE {"ok", "timeout", "error"}) :
       IF op = "ok"
       THEN Continue("success", current_target, iframe_stack, root_page, pages_opened,
                     [Ghost("whole_document") EXCEPT !.op = op])
       ELSE Halt(current_target, iframe_stack, [Ghost("whole_document") EXCEPT !.op = op])

is_single_element_required == action \in single_element_required_actions
is_multiple_elements_action == action \in multiple_elements_actions
is_screenshot_element == action = "screenshot" /\ selector # None

SingleTarget ==
  /\ InLoop /\ (is_single_element_required \/ is_screenshot_element)
  /\ IF Falsy(selector)
     THEN Halt(current_target, iframe_stack, Ghost("single"))
     ELSE \E r \in FindOutcomes[current_target] :
       LET searched == [Ghost("single") EXCEPT !.resolver = "single", !.examined = r.examined, !.found = r.scope]
       IN IF NotFound(r)
          THEN Halt(current_target, iframe_stack, searched)
          ELSE LET p == Promote(current_target, iframe_stack, r.scope)
                   promoted == [searched EXCEPT
                                  !.mid = ScopeState(p.current_target, p.iframe_stack, root_page)]
               IN \E h \in HostRuns(action, step_data) :
                    LET g == [promoted EXCEPT !.op = h.op, !.page_event = h.page_event, !.load = h.load]
                    IN IF MissingField(action, step_data)
                       THEN Halt(p.current_target, p.iframe_stack, g)
                       ELSE IF action = "click"
                       THEN LET o == ClickOutcome(h.op, h.page_event, h.load)
                                new_page == pages_opened + 1
                            IN IF o.status = "error" THEN Halt(p.current_target, p.iframe_stack, g)
                               ELSE IF o.adopt
                               THEN LET n == AdoptNewPage(new_page, p.iframe_stack)
                                    IN Continue("success", n.current_target, n.iframe_stack,
                                                n.root_page, new_page, g)
                               ELSE Continue("success", p.current_target, p.iframe_stack,
                                             root_page, pages_opened, g)
                       ELSE IF ElementOutcome(h.op) = "success"
                       THEN Continue("success", p.current_target, p.iframe_stack,
                                     root_page, pages_opened, g)
                       ELSE Halt(p.current_target, p.iframe_stack, g)

\* the key under which a multi-target step stores the list of what it read
\* from its n elements ("none": the record carries no such list)
ListKey(act, attribute_name, n) ==
  IF act = "get_all_text_contents" THEN "text_list"
  ELSE IF n = 0 THEN "none"
  ELSE CASE Lower(attribute_name) = "href" -> "url_lists"
         [] Lower(attribute_name) \in {"pdf", "content"} -> "none"
         [] OTHER -> "attribute_list"

\* variant: a multi-target step moves to the scope of its first element
MultiTargetPromotes ==
  /\ InLoop /\ is_multiple_elements_action
  /\ IF Falsy(selector)
     THEN Halt(current_target, iframe_stack, Ghost("multi"))
     ELSE \E r \in FindAllOutcomes[current_target] :
       LET g == [Ghost("multi") EXCEPT !.resolver = "multi", !.examined = r.examined,
                              !.count = Len(r.found_elements)]
           p == IF r.found_elements = <<>>
                THEN [current_target |-> current_target, iframe_stack |-> iframe_stack]
                ELSE Promote(current_target, iframe_stack, r.found_elements[1].scope)
       IN IF MissingField(action, step_data)
          THEN Halt(current_target, iframe_stack, g)
          ELSE Continue("success", p.current_target, p.iframe_stack, root_page, pages_opened,
                        [g EXCEPT !.list_key = ListKey(action, step_data.attribute_name, g.count)])

MultiTarget ==
  /\ InLoop /\ is_multiple_elements_action
  /\ IF Falsy(selector)
     THEN Halt(current_target, iframe_stack, Ghost("multi"))
     ELSE \E r \in FindAllOutcomes[current_target] :
       LET g == [Ghost("multi") EXCEPT !.resolver = "multi", !.examined = r.examined,
                              !.count = Len(r.found_elements)]
       IN IF MissingField(action, step_data)
          THEN Halt(current_target, iframe_stack, g)
          ELSE Continue("success", current_target, iframe_stack, root_page, pages_opened,
                        [g EXCEPT !.list_key = ListKey(action, step_data.attribute_name, g.count)])

\* screenshot without selector: root_page.screenshot(full_page=True)
ScreenshotPage ==
  /\ InLoop /\ action = "screenshot" /\ ~is_screenshot_element
  /\ \E op \in {"ok", "error"} :
       IF op = "ok"
       THEN Continue("success", current_target, iframe_stack, root_page, pages_opened,
                     [Ghost("screenshot_page") EXCEPT !.op = op])
       ELSE Halt(current_target, iframe_stack, [Ghost("screenshot_page") EXCEPT !.op = op])

\* variant: an unknown action tag is passed over without a record
UnknownActionNoRecord ==
  /\ InLoop /\ action \notin known_actions
  /\ i' = i + 1
  /\ last' = Ghost("unknown")
  /\ UNCHANGED <<call, pc, actions, results, current_target, root_page, iframe_stack,
                 pages_opened, all_success, final_results>>

\* variant: an unknown action tag is treated as a failure of the step
UnknownActionHalts ==
  /\ InLoop /\ action \notin known_actions
  /\ Halt(current_target, iframe_stack, Ghost("unknown"))

UnknownAction ==
  /\ InLoop /\ action \notin known_actions
  /\ Continue("skipped", current_target, iframe_stack, root_page, pages_opened, Ghost("unknown"))

Next ==
  \/ Setup
  \/ LoopExit
  \/ TargetInfoError
  \/ SwitchToIframe
  \/ SwitchToParentFrame
  \/ WholeDocument
  \/ SingleTarget
  \/ MultiTarget
  \/ ScreenshotPage
  \/ UnknownAction

Spec == Init /\ [][Next]_vars

\* ------------------------------------------- the resolver, one call at a time
\* the executor stays as constructed while a helper is called on its own
Idle ==
  /\ pc = "start" /\ actions = <<>> /\ i = 0 /\ results = <<>>
  /\ current_target = PageScope(0) /\ root_page = 0 /\ iframe_stack = <<>>
  /\ pages_opened = 0 /\ all_success = FALSE /\ final_results = <<>> /\ last = NoStep

StayIdle ==
  UNCHANGED <<pc, actions, i, results, current_target, root_page, iframe_stack,
              pages_opened, all_success, final_results, last>>

ResolverCalls ==
  { [fn |-> fn, base_locator |-> s, matches |-> m, budget |-> b, max_depth |-> d, done |-> FALSE] :
      fn \in {"find_element_dynamically", "find_all_elements_dynamically"},
      s \in ScopesOfPage(0), m \in MatchSets(0), b \in Budgets,
      d \in 0..DYNAMIC_SEARCH_MAX_DEPTH }

Returned(c, ret) ==
  [fn |-> c.fn, base_locator |-> c.base_locator, matches |-> c.matches, budget |-> c.budget,
   max_depth |-> c.max_depth, done |-> TRUE, ret |-> ret]

InitResolver == Idle /\ call \in ResolverCalls

FindElement ==
  /\ call.fn = "find_element_dynamically" /\ ~call.done
  /\ call' = Returned(call, find_element_dynamically(call.base_locator, call.matches,
                                                     call.budget, call.max_depth))
  /\ StayIdle

FindAllElements ==
  /\ call.fn = "find_all_elements_dynamically" /\ ~call.done
  /\ call' = Returned(call, find_all_elements_dynamically(call.base_locator, call.matches,
                                                          call.budget, call.max_depth))
  /\ StayIdle

NextResolver == FindElement \/ FindAllElements

SpecResolver == InitResolver /\ [][NextResolver]_vars

\* ------------------------------- attribute steps and PDFs, one call at a time
\* href values of the matched links (None: the element has no href or reading
\* it failed)
Hrefs == {None, "page.html", "a.pdf", "http://h/a.pdf", "b.PDF"}

current_base_url == "http://h/"

\* urllib.parse.urljoin(current_base_url, url)
urljoin(base, url) ==
  CASE url = "page.html" -> "http://h/page.html"
    [] url = "a.pdf" -> "http://h/a.pdf"
    [] url = "b.PDF" -> "http://h/b.PDF"
    [] OTHER -> url

\* "abs_url.lower().endswith('.pdf')"
EndsWithPdf(url) == Lower(url) \in {"a.pdf", "b.pdf", "http://h/a.pdf", "http://h/b.pdf"}

\* what the server holds at a URL: a readable PDF, bytes that are no PDF, or
\* nothing that can be fetched (status not OK, timeout, empty body)
Responses == {"pdf", "corrupt", "unreachable"}

DownloadFailed == "Error: PDF download failed or returned no data."
ExtractFailed == "Error: PDF data is empty or corrupted."
ErrorMarkers == {DownloadFailed, ExtractFailed}

\* utils.download_pdf_async: the body, or None on any failure
download_pdf_async(response) == IF response = "unreachable" THEN None ELSE response

\* utils.extract_text_from_pdf_sync: the text, or an error message string
extract_text_from_pdf_sync(pdf_data) ==
  IF pdf_data = "pdf" THEN "(text of the PDF)" ELSE ExtractFailed

\* what an attribute step leaves: the status of its record, the key and
\* content of its primary payload, the key and content of its PDF texts, and
\* the URLs it downloaded and the number of extractions it ran
Outcome(status, list_key, list, pdf_key, pdf, fetched, extracted) ==
  [status |-> status, list_key |-> list_key, list |-> list, pdf_key |-> pdf_key, pdf |-> pdf,
   fetched |-> fetched, extracted |-> extracted]

Raised == Outcome("error", "none", <<>>, "none", <<>>, <<>>, 0)

\* the get_attribute branch, given how element.get_attribute ends (op), the
\* value it returns and what the server holds at the link
get_attribute(attribute_name, op, attr_value, response) ==
  IF Falsy(attribute_name) \/ op # "ok" THEN Raised
  ELSE IF Lower(attribute_name) = "href" /\ attr_value # None
  THEN LET absolute_url == urljoin(current_base_url, attr_value)
           pdf_bytes == download_pdf_async(response)
       IN IF EndsWithPdf(absolute_url)
          THEN IF pdf_bytes # None
               THEN Outcome("success", "value", <<absolute_url>>, "pdf_text",
                            <<extract_text_from_pdf_sync(pdf_bytes)>>, <<absolute_url>>, 1)
               ELSE Outcome("success", "value", <<absolute_url>>, "pdf_text",
                            <<DownloadFailed>>, <<absolute_url>>, 0)
          ELSE Outcome("success", "value", <<absolute_url>>, "none", <<>>, <<>>, 0)
  ELSE Outcome("success", "value", <<attr_value>>, "none", <<>>, <<>>, 0)

\* the positions of the links whose absolute URL ends in .pdf
PdfPositions(href_list) ==
  SelectSeq([k \in 1..Len(href_list) |-> k],
            LAMBDA k : href_list[k] # None /\ EndsWithPdf(urljoin(current_base_url, href_list[k])))

\* "absolute_url_map[abs_url] = idx" over the links in order: the last
\* position of each PDF URL
absolute_url_map(href_list) ==
  LET idxs == PdfPositions(href_list)
      urls == { urljoin(current_base_url, href_list[idxs[j]]) : j \in 1..Len(idxs) }
  IN [u \in urls |->
        CHOOSE k \in SeqToSet(idxs) :
          /\ urljoin(current_base_url, href_list[k]) = u
          /\ \A k2 \in SeqToSet(idxs) : urljoin(current_base_url, href_list[k2]) = u => k2 <= k]

\* "for url, text in zip(pdf_urls_to_process, pdf_texts_list_filtered):
\*    pdf_texts_list[absolute_url_map[url]] = text"
RECURSIVE ZipFill(_, _, _, _, _)
ZipFill(j, pdf_urls_to_process, pdf_texts_list_filtered, url_map, pdf_texts_list) ==
  IF j > Len(pdf_urls_to_process) THEN pdf_texts_list
  ELSE ZipFill(j + 1, pdf_urls_to_process, pdf_texts_list_filtered, url_map,
               [pdf_texts_list EXCEPT ![url_map[pdf_urls_to_process[j]]] = pdf_texts_list_filtered[j]])

\* how the read of one element ends
ReadOutcomes == {"ok", "timeout", "error"}

get_single_attr_unguarded(op, value) == IF op = "ok" THEN value ELSE op

\* "try: return await locator.get_attribute(attr_name, ...)
\*  except Exception: return None"
get_single_attr(op, value) == IF op = "ok" THEN value ELSE None

\* the same wrapper around locator.get_attribute("href")
get_single_href(op, value) == IF op = "ok" THEN value ELSE None

\* the same wrapper around locator.text_content()
get_single_text(op, value) == IF op = "ok" THEN value ELSE None

\* asyncio.gather over one read per matched element, in the order of
\* found_elements_list
GatherReads(attribute_name, ops, values) ==
  [k \in 1..Len(values) |->
     IF attribute_name # None /\ Lower(attribute_name) \in {"href", "pdf", "content"}
     THEN get_single_href(ops[k], values[k])
     ELSE get_single_attr(ops[k], values[k])]

GatherTexts(ops, values) == [k \in 1..Len(values) |-> get_single_text(ops[k], values[k])]

\* the get_all_attributes branch, given what the read of every matched
\* element returned (the href for "href" and "pdf") and what the server
\* holds at each link
get_all_attributes(attribute_name, href_list, responses) ==
  IF Falsy(attribute_name) THEN Raised
  ELSE IF href_list = <<>>
  THEN Outcome("success", ListKey("get_all_attributes", attribute_name, 0), <<>>,
               "none", <<>>, <<>>, 0)
  ELSE IF Lower(attribute_name) = "href"
  THEN Outcome("success", ListKey("get_all_attributes", attribute_name, Len(href_list)),
               [k \in 1..Len(href_list) |->
                  IF href_list[k] # None THEN urljoin(current_base_url, href_list[k]) ELSE None],
               "none", <<>>, <<>>, 0)
  ELSE IF Lower(attribute_name) = "pdf"
  THEN LET idxs == PdfPositions(href_list)
           pdf_urls_to_process ==
             [j \in 1..Len(idxs) |-> urljoin(current_base_url, href_list[idxs[j]])]
           pdf_byte_results == [j \in 1..Len(idxs) |-> download_pdf_async(responses[idxs[j]])]
           pdf_texts_list_filtered ==
             [j \in 1..Len(idxs) |->
                IF pdf_byte_results[j] # None
                THEN extract_text_from_pdf_sync(pdf_byte_results[j]) ELSE None]
           pdf_texts_list ==
             ZipFill(1, pdf_urls_to_process, pdf_texts_list_filtered,
                     absolute_url_map(href_list), [k \in 1..Len(href_list) |-> None])
           extracted == Len(SelectSeq(pdf_byte_results, LAMBDA b : b # None))
       IN IF \A k \in 1..Len(href_list) : pdf_texts_list[k] = None
          THEN Outcome("success", "none", <<>>, "none", <<>>, pdf_urls_to_process, extracted)
          ELSE Outcome("success", "none", <<>>, "pdf_texts", pdf_texts_list,
                       pdf_urls_to_process, extracted)
  ELSE Outcome("success", ListKey("get_all_attributes", attribute_name, Len(href_list)),
               href_list, "none", <<>>, <<>>, 0)

\* the get_all_text_contents branch, given what the read of every matched
\* element returned
get_all_text_contents(text_list) ==
  Outcome("success", ListKey("get_all_text_contents", None, Len(text_list)), text_list,
          "none", <<>>, <<>>, 0)

AttributeNames == {None, "id", "href", "pdf", "PDF"}

\* one attribute step about to run: the attribute asked for, what each
\* matched element holds, how the read of each element ends and what the
\* server holds at each link
AttributeCall(fn, attribute_name, hrefs, reads, responses) ==
  [fn |-> fn, attribute_name |-> attribute_name,
   op |-> IF fn = "get_attribute" THEN reads[1] ELSE "ok", hrefs |-> hrefs,
   reads |-> reads, responses |-> responses, done |-> FALSE]

InitPayload ==
  /\ Idle
  /\ \E n \in 0..MaxLinks, a \in AttributeNames :
       \E hs \in [1..n -> Hrefs], ops \in [1..n -> ReadOutcomes], rs \in [1..n -> Responses] :
         \/ n = 1 /\ call = AttributeCall("get_attribute", a, hs, ops, rs)
         \/ call = AttributeCall("get_all_attributes", a, hs, ops, rs)
         \/ /\ a = None /\ rs = [k \in 1..n |-> "pdf"]
            /\ call = AttributeCall("get_all_text_contents", a, hs, ops, rs)

Answered(c, ret) ==
  [fn |-> c.fn, attribute_name |-> c.attribute_name, op |-> c.op, hrefs |-> c.hrefs,
   reads |-> c.reads, responses |-> c.responses, done |-> TRUE, ret |-> ret]

GetAttribute ==
  /\ call.fn = "get_attribute" /\ ~call.done
  /\ call' = Answered(call, get_attribute(call.attribute_name, call.op, call.hrefs[1],
                                          call.responses[1]))
  /\ StayIdle

GetAllAttributes ==
  /\ call.fn = "get_all_attributes" /\ ~call.done
  /\ call' = Answered(call, get_all_attributes(call.attribute_name,
                                               GatherReads(call.attribute_name, call.reads,
                                                           call.hrefs),
                                               call.responses))
  /\ StayIdle

GetAllTextContents ==
  /\ call.fn = "get_all_text_contents" /\ ~call.done
  /\ call' = Answered(call, get_all_text_contents(GatherTexts(call.reads, call.hrefs)))
  /\ StayIdle

NextPayload == GetAttribute \/ GetAllAttributes \/ GetAllTextContents

SpecPayload == InitPayload /\ [][NextPayload]_vars

\* ------------------------------------- utils.py: download and extraction
\* the result of a call: the exception that left it ("none": it returned)
\* and the value it returned
Returns(value) == [exc |-> "none", value |-> value]
Raises(exc) == [exc |-> exc, value |-> None]

\* how a request of the API context ends
RequestOutcomes == {"ok", "PlaywrightTimeoutError", "Exception"}
ContentTypes == {"application/pdf", "text/html", ""}
Bodies == {"", "%PDF", "<html>"}

\* the try block of utils.download_pdf_async: get, "if not response.ok",
\* the content-type warning, response.body(), "if not body"
DownloadTry(get, ok, content_type, read, body) ==
  IF get # "ok" THEN Raises(get)
  ELSE IF ~ok THEN Returns(None)
  ELSE IF read # "ok" THEN Raises(read)
  ELSE IF body = "" THEN Returns(None)
  ELSE Returns(body)

\* the try block of the copy in main_mcp.py: no test of the body
DownloadTryMainMcp(get, ok, content_type, read, body) ==
  IF get # "ok" THEN Raises(get)
  ELSE IF ~ok THEN Returns(None)
  ELSE IF read # "ok" THEN Raises(read)
  ELSE Returns(body)

DownloadCatchesTimeoutOnly(exc) == exc = "PlaywrightTimeoutError"

\* "except PlaywrightTimeoutError: ... except Exception: ..."
DownloadCatches(exc) == exc \in {"PlaywrightTimeoutError", "Exception"}

utils_download_pdf_async(get, ok, content_type, read, body) ==
  LET r == DownloadTry(get, ok, content_type, read, body)
  IN IF r.exc # "none" /\ DownloadCatches(r.exc) THEN Returns(None) ELSE r

main_mcp_download_pdf_async(get, ok, content_type, read, body) ==
  LET r == DownloadTryMainMcp(get, ok, content_type, read, body)
  IN IF r.exc # "none" /\ DownloadCatches(r.exc) THEN Returns(None) ELSE r

\* how fitz.open ends, and what a page of the document gives: text, only
\* white space, nothing, or an exception of load_page / get_text
OpenOutcomes ==
  {"ok", "TryingToReadFromEmptyFileError", "FileDataError", "RuntimeError", "Exception"}
PageKinds == {"text", "space", "blank", "fail"}
PageLists == UNION { [1..n -> PageKinds] : n \in 0..MaxPdfPages }

\* the loop over the pages: what text_parts holds after page k
RECURSIVE TextParts(_, _)
TextParts(pages, k) ==
  IF k = 0 THEN <<>>
  ELSE LET before == TextParts(pages, k - 1)
       IN CASE pages[k] = "text" -> Append(before, [page |-> k, part |-> "text"])
            [] pages[k] = "space" -> Append(before, [page |-> k, part |-> ""])
            [] pages[k] = "fail" -> Append(before, [page |-> k, part |-> "--- Error processing page"])
            [] OTHER -> before

\* "cleaned_text = '\n'.join([line.strip() for line in ... if line.strip()])"
CleanedText(text_parts) == SelectSeq(text_parts, LAMBDA t : t.part # "")

\* bool(doc): fitz.Document has __len__ (the page count) and no __bool__
DocTruthy(pages) == Len(pages) > 0

\* the try block of utils.extract_text_from_pdf_sync: fitz.open, the loop
\* over the pages, the cleaning, and the string returned (kind: "text" or
\* "no_text")
ExtractTry(open, pages) ==
  IF open # "ok" THEN [exc |-> open, kind |-> "none", parts |-> <<>>]
  ELSE LET cleaned_text == CleanedText(TextParts(pages, Len(pages)))
       IN [exc |-> "none", kind |-> IF cleaned_text # <<>> THEN "text" ELSE "no_text",
           parts |-> cleaned_text]

\* the except clauses, the last one "except Exception"
ExtractCatches(exc) ==
  exc \in {"TryingToReadFromEmptyFileError", "FileDataError", "RuntimeError", "Exception"}

\* "finally: if doc: try: doc.close() except Exception: ..."
CloseCalled(open, pages) == open = "ok" /\ DocTruthy(pages)

\* utils.extract_text_from_pdf_sync: the exception that leaves it, the string
\* it returns, and whether the document was opened and close() was called
utils_extract_text_from_pdf_sync(open, pages, close) ==
  LET r == ExtractTry(open, pages)
  IN [exc |-> IF r.exc # "none" /\ ~ExtractCatches(r.exc) THEN r.exc ELSE "none",
      kind |-> IF r.exc # "none" THEN "error" ELSE r.kind,
      parts |-> r.parts,
      opened |-> open = "ok",
      closed |-> CloseCalled(open, pages)]

DownloadCall(impl, get, ok, content_type, read, body) ==
  [fn |-> "download_pdf_async", impl |-> impl, get |-> get, ok |-> ok,
   content_type |-> content_type, read |-> read, body |-> body, done |-> FALSE]

ExtractCall(open, pages, close) ==
  [fn |-> "extract_text_from_pdf_sync", open |-> open, pages |-> pages, close |-> close,
   done |-> FALSE]

InitUtils ==
  /\ Idle
  /\ \/ \E impl \in {"utils", "main_mcp"}, get \in RequestOutcomes, ok \in BOOLEAN,
          ct \in ContentTypes, read \in RequestOutcomes, body \in Bodies :
            call = DownloadCall(impl, get, ok, ct, read, body)
     \/ \E open \in OpenOutcomes, pages \in PageLists, close \in {"ok", "Exception"} :
            call = ExtractCall(open, pages, close)

DownloadPdf ==
  /\ call.fn = "download_pdf_async" /\ ~call.done
  /\ call' = [fn |-> call.fn, impl |-> call.impl, get |-> call.get, ok |-> call.ok,
              content_type |-> call.content_type, read |-> call.read, body |-> call.body,
              done |-> TRUE,
              ret |-> IF call.impl = "utils"
                      THEN utils_download_pdf_async(call.get, call.ok, call.content_type,
                                                    call.read, call.body)
                      ELSE main_mcp_download_pdf_async(call.get, call.ok, call.content_type,
                                                       call.read, call.body)]
  /\ StayIdle

ExtractText ==
  /\ call.fn = "extract_text_from_pdf_sync" /\ ~call.done
  /\ call' = [fn |-> call.fn, open |-> call.open, pages |-> call.pages, close |-> call.close,
              done |-> TRUE, ret |-> utils_extract_text_from_pdf_sync(call.open, call.pages, call.close)]
  /\ StayIdle

NextUtils == DownloadPdf \/ ExtractText

SpecUtils == InitUtils /\ [][NextUtils]_vars

\* ------------------------- one run, from the adapter to the exit code
\* what execute_actions_async can hand back: (True, results) after the last
\* step, (False, results) with the error record of the failed step last
ExecReturns ==
  { [all_success |-> TRUE, results |-> <<Record(1, "success", "click")>>],
    [all_success |-> TRUE,
     results |-> <<Record(1, "success", "click"), Record(2, "success", "input")>>],
    [all_success |-> FALSE, results |-> <<Record(1, "error", "click")>>],
    [all_success |-> FALSE,
     results |-> <<Record(1, "success", "click"), Record(2, "error", "input")>>] }

\* the input of the command line: a readable file with target_url and
\* actions, no file, a file that is no JSON, a file without target_url, a
\* file whose list of actions is empty
CliInputs == {"ok", "missing_file", "bad_json", "no_target_url", "no_actions"}

\* a run about to start: the copy of run_playwright_automation_async (impl),
\* the adapter that calls it, "playwright = None; browser = None;
\* context = None; page = None", "all_success = False; final_results = []"
RunCall(impl, adapter, input) ==
  [fn |-> "run", impl |-> impl, adapter |-> adapter, input |-> input, at |-> "adapter",
   playwright |-> FALSE, browser |-> FALSE, context |-> FALSE, page |-> FALSE,
   connected |-> FALSE, failed_at |-> "none", exec |-> <<>>,
   all_success |-> FALSE, final_results |-> <<>>, returned |-> FALSE, raised |-> FALSE,
   closes |-> <<>>, close_failed |-> {}, output |-> "none",
   exit_code |-> -1, tool |-> "none", done |-> FALSE]

InitRun ==
  /\ Idle
  /\ \/ \E input \in CliInputs : call = RunCall("playwright_handler", "cli", input)
     \/ call = RunCall("playwright_handler", "rpc", "ok")
     \/ \E impl \in {"playwright_handler", "playwright_launcher"} :
          call = RunCall(impl, "direct", "ok")

Running(at) == call.fn = "run" /\ ~call.done /\ call.at = at

\* main.py up to asyncio.run: the file test before the try, then
\* load_input_from_json and "if not target_url or not actions" inside it
CliExitBeforeRun(input) == IF input = "ok" THEN -1 ELSE 1

\* the adapter receives the request and calls the run
AdapterCalls ==
  /\ Running("adapter")
  /\ IF call.adapter = "cli" /\ CliExitBeforeRun(call.input) # -1
     THEN call' = [call EXCEPT !.exit_code = CliExitBeforeRun(call.input), !.at = "end",
                               !.done = TRUE]
     ELSE call' = [call EXCEPT !.at = "start"]
  /\ StayIdle

\* an awaited call of the try block raised: on to the except clause; a
\* browser that was launched may have lost its connection
Fails(at) ==
  \E c \in (IF call.browser THEN BOOLEAN ELSE {FALSE}) :
    call' = [call EXCEPT !.failed_at = at, !.at = "except", !.connected = c]

StartPlaywright ==
  /\ Running("start")
  /\ \/ call' = [call EXCEPT !.playwright = TRUE, !.at = "launch"]
     \/ Fails("start")
  /\ StayIdle

LaunchBrowser ==
  /\ Running("launch")
  /\ \/ call' = [call EXCEPT !.browser = TRUE, !.connected = TRUE, !.at = "new_context"]
     \/ Fails("launch")
  /\ StayIdle

NewContext ==
  /\ Running("new_context")
  /\ \/ call' = [call EXCEPT !.context = TRUE, !.at = "new_page"]
     \/ Fails("new_context")
  /\ StayIdle

NewPage ==
  /\ Running("new_page")
  /\ \/ call' = [call EXCEPT !.page = TRUE, !.at = "goto"]
     \/ Fails("new_page")
  /\ StayIdle

Goto ==
  /\ Running("goto")
  /\ \/ call' = [call EXCEPT !.at = "execute"]
     \/ Fails("goto")
  /\ StayIdle

\* "all_success, final_results = await execute_actions_async(...)"
ExecuteActions ==
  /\ Running("execute")
  /\ \/ \E r \in ExecReturns, c \in BOOLEAN :
          call' = [call EXCEPT !.all_success = r.all_success, !.final_results = r.results,
                               !.exec = r.results, !.connected = c, !.at = "close_context"]
     \/ Fails("execute")
  /\ StayIdle

\* "except (PlaywrightTimeoutError, PlaywrightError, Exception)"
ExceptClause ==
  /\ Running("except")
  /\ call' = [call EXCEPT !.final_results = OnOverallError(call.final_results),
                          !.all_success = FALSE, !.at = "close_context"]
  /\ StayIdle

\* variant: a failing close leaves the function with its exception
AfterCloseUnguarded(outcome, next) == IF outcome = "ok" THEN next ELSE "raised"

\* "try: await x.close() except Exception: log": on to the next resource
AfterClose(outcome, next) == next

\* one step of the finally block: close the resource if the test of its
\* "if" holds, whatever the close does
Teardown(resource, held, next) ==
  IF held
  THEN \E outcome \in {"ok", "Exception"} :
         call' = [call EXCEPT !.closes = Append(call.closes, resource),
                              !.close_failed = IF outcome = "ok" THEN @ ELSE @ \cup {resource},
                              !.at = AfterClose(outcome, next),
                              !.raised = (AfterClose(outcome, next) = "raised")]
  ELSE call' = [call EXCEPT !.at = next]

CloseContext ==
  /\ Running("close_context")
  /\ Teardown("context", call.context, "close_browser")
  /\ StayIdle

\* "if browser:", and in playwright_launcher.py "if browser and
\* browser.is_connected():"
BrowserHeld ==
  IF call.impl = "playwright_launcher" THEN call.browser /\ call.connected ELSE call.browser

CloseBrowser ==
  /\ Running("close_browser")
  /\ Teardown("browser", BrowserHeld, "stop_playwright")
  /\ StayIdle

StopPlaywright ==
  /\ Running("stop_playwright")
  /\ Teardown("playwright", call.playwright, "return")
  /\ StayIdle

\* "return all_success, final_results", or the exception that left the
\* finally block
ReturnRun ==
  /\ call.fn = "run" /\ ~call.done /\ call.at \in {"return", "raised"}
  /\ call' = [call EXCEPT !.returned = (call.at = "return"), !.at = "adapter_out",
                          !.done = (call.adapter = "direct")]
  /\ StayIdle

ExitCodeZero(success) == 0

\* "sys.exit(0 if success else 1)"
ExitCode(success) == IF success THEN 0 ELSE 1

\* main.py after asyncio.run: print the results, write the file, exit;
\* an exception on the way reaches "except Exception: sys.exit(1)"
CliExits ==
  /\ Running("adapter_out") /\ call.adapter = "cli"
  /\ \E output \in {"ok", "Exception"} :
       call' = [call EXCEPT !.output = output, !.at = "end", !.done = TRUE,
                            !.exit_code = IF call.returned /\ output = "ok"
                                          THEN ExitCode(call.all_success) ELSE 1]
  /\ StayIdle

\* the exception that leaves the try block of execute_web_runner: none when
\* it returns results_json, the ToolError of line 95, or what json.dumps or
\* the run raised
RpcTry(returned, success, dumps) ==
  IF ~returned \/ dumps # "ok" THEN "Exception"
  ELSE IF success THEN "none" ELSE "ToolError: Web-Runner task failed"

\* "except ImportError ... except Exception as e: raise ToolError("Unhandled
\* server error during execution ...")": ToolError is an Exception
RpcCatches(exc) == exc # "none"

\* what the caller of the tool gets
execute_web_runner(returned, success, dumps) ==
  LET exc == RpcTry(returned, success, dumps)
  IN IF exc = "none" THEN "results_json"
     ELSE IF RpcCatches(exc) THEN "ToolError: Unhandled server error"
     ELSE exc

RpcAnswers ==
  /\ Running("adapter_out") /\ call.adapter = "rpc"
  /\ \E dumps \in {"ok", "Exception"} :
       call' = [call EXCEPT !.output = dumps, !.at = "end", !.done = TRUE,
                            !.tool = execute_web_runner(call.returned, call.all_success, dumps)]
  /\ StayIdle

NextRun ==
  \/ AdapterCalls \/ StartPlaywright \/ LaunchBrowser \/ NewContext \/ NewPage \/ Goto
  \/ ExecuteActions \/ ExceptClause \/ CloseContext \/ CloseBrowser \/ StopPlaywright
  \/ ReturnRun \/ CliExits \/ RpcAnswers

SpecRun == InitRun /\ [][NextRun]_vars

\* ------------------------------- the concurrent sub-operations of a step
\* "semaphore = asyncio.Semaphore(5)"
SemaphoreLimit == 5

\* the phases of gathered sub-operations a multi-target step goes through
Phases(kind) ==
  CASE kind = "pdf" -> <<"reads", "downloads", "extractions">>
    [] kind = "content" -> <<"reads", "visits">>
    [] OTHER -> <<"reads">>

FanOutKinds == {"attribute", "href", "pdf", "content", "text"}

\* the pages the links of a "content" step lead to
PageUrls == {"http://h/a", "http://h/b"}

\* the links of a step: up to MaxUrls pages for a "content" step
FanOutUrls(kind) ==
  UNION { [1..n -> PageUrls] : n \in 1..(IF kind = "content" THEN MaxUrls ELSE MaxLinks) }

NoRecord == [step |-> 0, kind |-> "none", urls |-> <<>>, scraped_texts |-> <<>>]

\* the step loop between two steps: the number of records appended so far
\* and the last of them
NoFanOut ==
  [fn |-> "fan_out", step |-> 0, kind |-> "none", urls |-> <<>>, phase |-> 0,
   tasks |-> <<>>, unfinished |-> 0, appended |-> 0, record |-> NoRecord, done |-> FALSE]

InitFanOut == Idle /\ call = NoFanOut

\* the tasks handed to asyncio.gather: all of them run at once, but a page
\* visit first waits for the semaphore
Created(kind, phase, n) ==
  [k \in 1..n |-> IF Phases(kind)[phase] = "visits" THEN "pending" ELSE "running"]

\* the next multi-target step creates the tasks of its reads
StartStep ==
  /\ call.fn = "fan_out" /\ call.phase = 0 /\ call.step < MaxSteps
  /\ \E kind \in FanOutKinds : \E urls \in FanOutUrls(kind) :
       call' = [call EXCEPT !.step = @ + 1, !.kind = kind, !.urls = urls, !.phase = 1,
                            !.tasks = Created(kind, 1, Len(urls)), !.record = NoRecord]
  /\ StayIdle

InFlight(tasks) == { k \in 1..Len(tasks) : tasks[k] = "running" }

Visiting == call.fn = "fan_out" /\ call.phase > 0 /\ Phases(call.kind)[call.phase] = "visits"

\* "async with semaphore": a visit starts while fewer than 5 hold it
MayEnter(tasks) == Cardinality(InFlight(tasks)) < SemaphoreLimit

\* a sub-operation starts to run
TaskStarts ==
  /\ call.fn = "fan_out" /\ call.phase > 0
  /\ \E k \in 1..Len(call.tasks) :
       /\ call.tasks[k] = "pending"
       /\ Visiting => MayEnter(call.tasks)
       /\ call' = [call EXCEPT !.tasks[k] = "running"]
  /\ StayIdle

\* a sub-operation ends: with its value, or with None or an error string
\* from its own except clause
TaskEnds ==
  /\ call.fn = "fan_out" /\ call.phase > 0
  /\ \E k \in 1..Len(call.tasks) :
       /\ call.tasks[k] = "running"
       /\ call' = [call EXCEPT !.tasks[k] = "done"]
  /\ StayIdle

JoinFirst(tasks) == \E k \in 1..Len(tasks) : tasks[k] = "done"

\* "await asyncio.gather(*tasks)": every task has ended
Join(tasks) == \A k \in 1..Len(tasks) : tasks[k] = "done"

\* the text get_page_inner_text returns for the k-th URL of the list
VisitText(k) == "text " \o ToString(k)

\* the last position of each URL: "absolute_url_map[abs_url] = idx"
content_url_map(urls) ==
  [u \in SeqToSet(urls) |->
     CHOOSE k \in 1..Len(urls) : urls[k] = u /\ \A k2 \in 1..Len(urls) : urls[k2] = u => k2 <= k]

\* "scraped_texts_list = [None] * len(href_list)", filled through the map
scraped_texts_list(urls, content_results) ==
  ZipFill(1, urls, content_results, content_url_map(urls), [k \in 1..Len(urls) |-> None])

\* the gather of a phase returns: the next phase is created, or the record
\* of the step is appended and the loop goes to the next step
Gathered ==
  /\ call.fn = "fan_out" /\ call.phase > 0
  /\ Join(call.tasks)
  /\ LET left == Cardinality({ k \in 1..Len(call.tasks) : call.tasks[k] # "done" })
         content_results == [k \in 1..Len(call.urls) |-> VisitText(k)]
     IN IF call.phase < Len(Phases(call.kind))
        THEN call' = [call EXCEPT !.phase = @ + 1,
                                  !.tasks = Created(call.kind, call.phase + 1, Len(call.urls)),
                                  !.unfinished = @ + left]
        ELSE call' = [call EXCEPT !.phase = 0, !.tasks = <<>>, !.unfinished = @ + left,
                                  !.appended = @ + 1,
                                  !.record =
                                     [step |-> call.step, kind |-> call.kind,
                                      urls |-> call.urls,
                                      scraped_texts |->
                                        IF call.kind = "content"
                                        THEN scraped_texts_list(call.urls, content_results)
                                        ELSE <<>>],
                                  !.done = (call.step = MaxSteps)]
  /\ StayIdle

NextFanOut == StartStep \/ TaskStarts \/ TaskEnds \/ Gathered

SpecFanOut == InitFanOut /\ [][NextFanOut]_vars

\* the event loop runs every task that can run, and every gather whose
\* tasks have ended returns
FairFanOut == SpecFanOut /\ WF_vars(TaskStarts) /\ WF_vars(TaskEnds) /\ WF_vars(Gathered)

\* ----------------------------------- the except clause of a failed step
\* how the calls of the diagnostic screenshot end
ShotOutcomes == {"ok", "PlaywrightTimeoutError", "Exception"}

ErrorScreenshotUnguarded(root_closed, makedirs, shot) ==
  IF root_closed THEN "not_attempted"
  ELSE IF makedirs # "ok" \/ shot # "ok" THEN "raised"
  ELSE "saved"

\* "if root_page and not root_page.is_closed(): try: os.makedirs(...);
\*  await root_page.screenshot(...) except Exception: log"
ErrorScreenshot(root_closed, makedirs, shot) ==
  IF root_closed THEN "not_attempted"
  ELSE IF makedirs # "ok" \/ shot # "ok" THEN "failed"
  ELSE "saved"

\* "error_details = {...}; if error_screenshot_path:
\*  error_details["error_screenshot"] = error_screenshot_path"
error_details(step, act, screenshot) ==
  [step |-> step, status |-> "error", action |-> act,
   error_screenshot |-> IF screenshot = "saved" THEN "error_step.png" ELSE None]

\* the except clause of the step loop: the exception that leaves it, and
\* the pair returned
StepExcept(results_so_far, step, act, root_closed, makedirs, shot) ==
  LET screenshot == ErrorScreenshot(root_closed, makedirs, shot)
  IN IF screenshot = "raised"
     THEN [exc |-> "Exception", screenshot |-> screenshot, all_success |-> FALSE,
           results |-> results_so_far]
     ELSE [exc |-> "none", screenshot |-> screenshot, all_success |-> FALSE,
           results |-> Append(results_so_far, error_details(step, act, screenshot))]

\* the records of the steps before the failed one
Succeeded(n) ==
  [k \in 1..n |-> [step |-> k, status |-> "success", action |-> "click",
                   error_screenshot |-> None]]

InitStepError ==
  /\ Idle
  /\ \E step \in 1..MaxSteps, act \in known_actions, root_closed \in BOOLEAN,
        makedirs \in {"ok", "Exception"}, shot \in ShotOutcomes :
       call = [fn |-> "step_error", step |-> step, action |-> act,
               results |-> Succeeded(step - 1), root_closed |-> root_closed,
               makedirs |-> makedirs, shot |-> shot, done |-> FALSE]

\* a step raised: the except clause runs and the loop returns
StepFails ==
  /\ call.fn = "step_error" /\ ~call.done
  /\ call' = [fn |-> call.fn, step |-> call.step, action |-> call.action,
              results |-> call.results, root_closed |-> call.root_closed,
              makedirs |-> call.makedirs, shot |-> call.shot, done |-> TRUE,
              ret |-> StepExcept(call.results, call.step, call.action, call.root_closed,
                                 call.makedirs, call.shot)]
  /\ StayIdle

NextStepError == StepFails

SpecStepError == InitStepError /\ [][NextStepError]_vars

\* --------------------------------- the resolver, one await at a time
\* SpecSearch follows find_element_dynamically / find_all_elements_dynamically
\* statement by statement with a clock in milliseconds.  A bounded wait ends
\* within the timeout it was granted, and the clock counts the time spent in
\* bounded waits.  What a scope holds and whether an iframe attaches is the
\* browser's answer at the moment of the await; at most MaxFaults awaits of a
\* call fail other than by an element being absent, and the multi mode meets
\* its MaxMatches elements in one scope (SpecResolver spreads them over the
\* scopes).  The id() of a scope stands for the frame it denotes.
element_wait_timeout == 2000
IFRAME_LOCATOR_TIMEOUT == 2000

\* overall timeouts a call is given (ms)
Timeouts == {0, 90, 100, 5000, 100000}

Max(a, b) == IF a >= b THEN a ELSE b
Min(a, b) == IF a <= b THEN a ELSE b

\* variant: the loop head only tests whether the timeout is reached
OutOfTimeElapsedOnly(elapsed_time_ms, timeout, reserve) == elapsed_time_ms >= timeout

\* "if elapsed_time_ms >= timeout: ..." then "if remaining_time_ms < reserve: ..."
OutOfTime(elapsed_time_ms, timeout, reserve) ==
  elapsed_time_ms >= timeout \/ timeout - elapsed_time_ms < reserve

effective_element_timeout(remaining_time_ms) ==
  Max(50, Min(element_wait_timeout, remaining_time_ms - 50))

\* variant: the iframe wait is never shorter than 100 ms
effective_iframe_check_timeout_100(remaining_time_ms_inner) ==
  Max(100, Min(IFRAME_LOCATOR_TIMEOUT, remaining_time_ms_inner - 50))

effective_iframe_check_timeout(remaining_time_ms_inner) ==
  Max(50, Min(IFRAME_LOCATOR_TIMEOUT, remaining_time_ms_inner - 50))

NoWait == [kind |-> "none", granted |-> 0, remaining |-> 0]

\* "queue = deque([(base_locator, 0)])"
InitialQueue(base_locator) == <<[scope |-> base_locator, depth |-> 0]>>

SearchCall(fn, base_locator, max_depth, timeout) ==
  [fn |-> fn, base_locator |-> base_locator, max_depth |-> max_depth,
   timeout |-> timeout, at |-> "while", elapsed |-> 0,
   queue |-> InitialQueue(base_locator),
   visited_scope_ids |-> {InitialQueue(base_locator)[1].scope},
   current_scope |-> NoScope, current_depth |-> 0, count |-> 0, nth |-> 0,
   found_elements |-> <<>>, ret |-> NoScope, examined |-> <<>>,
   wait |-> NoWait, skipped |-> {}, faults |-> 0]

InitSearch ==
  /\ Idle
  /\ \E fn \in {"find_element_dynamically", "find_all_elements_dynamically"},
        base_locator \in ScopesOfPage(0),
        max_depth \in 0..DYNAMIC_SEARCH_MAX_DEPTH, timeout \in Timeouts :
       call = SearchCall(fn, base_locator, max_depth, timeout)

SingleMode == call.fn = "find_element_dynamically"

\* "while queue:" is false: "return None, None" / "return found_elements"
QueueEmpty ==
  /\ call.at = "while" /\ call.queue = <<>>
  /\ call' = [call EXCEPT !.at = "done"]
  /\ StayIdle

\* the time test at the head of the loop fails: "return None, None" in the
\* single mode, "break" and "return found_elements" in the multi mode
TimeUp ==
  /\ call.at = "while" /\ call.queue # <<>>
  /\ OutOfTime(call.elapsed, call.timeout, 100)
  /\ call' = [call EXCEPT !.at = "done"]
  /\ StayIdle

\* variant: the head of the queue is read and left in place
popleft_peek(queue) == queue

\* what "queue.popleft()" leaves in the queue
popleft(queue) == Tail(queue)

\* "current_scope, current_depth = queue.popleft()"
PopLeft ==
  /\ call.at = "while" /\ call.queue # <<>>
  /\ ~OutOfTime(call.elapsed, call.timeout, 100)
  /\ call' = [call EXCEPT !.at = "element",
                          !.current_scope = Head(call.queue).scope,
                          !.current_depth = Head(call.queue).depth,
                          !.queue = popleft(call.queue)]
  /\ StayIdle

\* what a wait granted a timeout can answer, and after how long
WaitAnswers(kind, granted, faults) ==
  {[outcome |-> "ok", took |-> 0]}
    \cup (IF kind = "element" \/ faults < MaxFaults
          THEN {[outcome |-> "PlaywrightTimeoutError", took |-> granted]} ELSE {})
    \cup (IF faults < MaxFaults THEN {[outcome |-> "Exception", took |-> 0]} ELSE {})

\* an element that is absent when its wait ends is the ordinary course of a
\* search; any other failed await counts against MaxFaults
IsFault(kind, outcome) ==
  outcome = "Exception" \/ (kind = "iframe" /\ outcome = "PlaywrightTimeoutError")

Waited(c, kind, granted, answer) ==
  [c EXCEPT !.wait = [kind |-> kind, granted |-> granted, remaining |-> c.timeout - c.elapsed],
            !.elapsed = @ + answer.took,
            !.faults = @ + (IF IsFault(kind, answer.outcome) THEN 1 ELSE 0)]

\* "await element.wait_for(state=target_state, timeout=effective_element_timeout)":
\* the element is returned with its scope, or the failure is logged
ElementWait ==
  /\ call.at = "element" /\ SingleMode
  /\ LET granted == effective_element_timeout(call.timeout - call.elapsed)
     IN \E answer \in WaitAnswers("element", granted, call.faults) :
          LET c == [Waited(call, "element", granted, answer)
                      EXCEPT !.examined = Append(@, call.current_scope)]
          IN call' = IF answer.outcome = "ok"
                     THEN [c EXCEPT !.at = "done", !.ret = call.current_scope]
                     ELSE [c EXCEPT !.at = "descend"]
  /\ StayIdle

\* "elements_in_scope = await current_scope.locator(target_selector).all()":
\* every element is appended with its scope; an exception is logged
ElementsAll ==
  /\ call.at = "element" /\ ~SingleMode
  /\ \E raised \in {FALSE} \cup {call.faults < MaxFaults},
        n \in {0, MaxMatches - Len(call.found_elements)} :
       call' = [call EXCEPT !.at = "descend",
                            !.faults = @ + (IF raised THEN 1 ELSE 0),
                            !.examined = Append(@, call.current_scope),
                            !.found_elements =
                               IF raised THEN @
                               ELSE @ \o [k \in 1..n |-> [elem |-> k, scope |-> call.current_scope]]]
  /\ StayIdle

\* "if current_depth < max_depth:" is false, or the time test inside it says
\* "continue"
NoDescent ==
  /\ call.at = "descend"
  /\ \/ ~MayDescend(call.current_depth, call.max_depth)
     \/ OutOfTime(call.elapsed, call.timeout, 100)
  /\ call' = [call EXCEPT !.at = "while"]
  /\ StayIdle

\* "count = await visible_iframe_locators.count()"; an exception here ends
\* the enumeration of this scope
CountIframes ==
  /\ call.at = "descend"
  /\ MayDescend(call.current_depth, call.max_depth)
  /\ ~OutOfTime(call.elapsed, call.timeout, 100)
  /\ \E raised \in {FALSE} \cup {call.faults < MaxFaults} :
       call' = IF raised THEN [call EXCEPT !.at = "while", !.faults = @ + 1]
               ELSE [call EXCEPT !.at = "for", !.nth = 1,
                                 !.count = NumChildren(call.current_scope.path)]
  /\ StayIdle

\* "for i in range(count):" is exhausted, or the time test in it says "break"
EndFor ==
  /\ call.at = "for"
  /\ call.nth > call.count \/ OutOfTime(call.elapsed, call.timeout, 50)
  /\ call' = [call EXCEPT !.at = "while"]
  /\ StayIdle

\* variant: a child that does not materialize ends the enumeration
NextChildBreak(outcome, nth, count) == IF outcome = "ok" THEN nth + 1 ELSE count + 1

\* the loop variable after one iframe, whatever became of it
NextChild(outcome, nth, count) == nth + 1

\* "queue.append((next_frame_locator, current_depth + 1))"
Enqueue(queue, current_depth, next_frame_locator) ==
  Append(queue, [scope |-> next_frame_locator, depth |-> current_depth + 1])

\* one iframe of the scope: "await next_frame_locator.locator(':root')
\* .wait_for(state='attached', timeout=effective_iframe_check_timeout)", then
\* the scope is queued unless visited; a timeout or an error skips the iframe
CheckIframe ==
  /\ call.at = "for" /\ call.nth <= call.count
  /\ ~OutOfTime(call.elapsed, call.timeout, 50)
  /\ LET granted == effective_iframe_check_timeout(call.timeout - call.elapsed)
         next_frame_locator == frame_locator(call.current_scope, call.nth)
     IN \E answer \in WaitAnswers("iframe", granted, call.faults) :
          LET c == [Waited(call, "iframe", granted, answer)
                      EXCEPT !.nth = NextChild(answer.outcome, call.nth, call.count)]
          IN call' =
               IF answer.outcome # "ok"
               THEN [c EXCEPT !.skipped = @ \cup {next_frame_locator}]
               ELSE IF next_frame_locator \in call.visited_scope_ids
               THEN c
               ELSE [c EXCEPT !.visited_scope_ids = @ \cup {next_frame_locator},
                              !.queue = Enqueue(@, call.current_depth, next_frame_locator)]
  /\ StayIdle

NextSearch ==
  \/ QueueEmpty
  \/ TimeUp
  \/ PopLeft
  \/ ElementWait
  \/ ElementsAll
  \/ NoDescent
  \/ CountIframes
  \/ EndFor
  \/ CheckIframe

SpecSearch == InitSearch /\ [][NextSearch]_vars

\* the event loop runs the coroutine on whenever the await it stands at has
\* answered, and every await answers
FairSearch == SpecSearch /\ WF_vars(NextSearch)

\* ------------------------------------------------------------ properties
HasError(rs) == \E k \in 1..Len(rs) : rs[k].status = "error"

HasStatus(rs, st) == \E k \in 1..Len(rs) : rs[k].status = st

LastStatus == results[last.step].status

\* C1: fail-fast.  When the single-element search of step k comes back empty,
\* the result list ends with the one error record of step k, the run has
\* returned overall_success = false, and no record of a later step exists.
C1_FailFast ==
  (last.resolver = "single" /\ last.found = NoScope)
    => /\ pc = "done" /\ all_success = FALSE
       /\ Len(results) = last.step
       /\ results[last.step] = Record(last.step, "error", last.action)
       /\ \A k \in 1..Len(results) :
            /\ results[k].step <= last.step
            /\ (results[k].status = "error" => k = last.step)
       /\ final_results = results

C1_Witness ==
  /\ last.resolver = "single" /\ last.found = NoScope
  /\ last.examined # <<>>
  /\ last.step < Len(actions)
  /\ pc = "done"

\* C2: when the run has returned, overall_success is false exactly when the
\* returned list holds a record with status "error"; "warning" and "skipped"
\* records do not make it false.
C2_SuccessIffNoError ==
  pc = "done" => (all_success = FALSE <=> HasError(final_results))

C2_Witness ==
  /\ pc = "done" /\ all_success = TRUE
  /\ HasStatus(final_results, "warning")
  /\ HasStatus(final_results, "skipped")

\* C3: a run in which no step produced an error returns overall_success =
\* true and as many records as there are actions.
C3_AllStepsSucceed ==
  (pc = "done" /\ ~HasError(final_results))
    => all_success = TRUE /\ Len(final_results) = Len(actions)

C3_Witness ==
  /\ pc = "done" /\ all_success = TRUE
  /\ Len(actions) >= 2
  /\ Len(final_results) = Len(actions)

\* C4 (as amended): every processed step appended exactly one record.  After
\* i steps without halt there are i records, record k has step = k and the
\* lower-cased action tag of the k-th ActionStep, and none is an error; a
\* halting step adds exactly one record, an error, and the loop has stopped.
C4_OneRecordPerStep ==
  /\ Len(results) = IF last.halted THEN i + 1 ELSE i
  /\ \A k \in 1..Len(results) :
       /\ results[k].step = k
       /\ results[k].action = Lower(actions[k].action)
       /\ (results[k].status = "error" <=> (last.halted /\ k = Len(results)))
  /\ (last.halted => pc = "done")

\* C4 as stated: record k carries the action name of the k-th ActionStep as given
C4_Original ==
  /\ Len(results) = IF last.halted THEN i + 1 ELSE i
  /\ \A k \in 1..Len(results) :
       /\ results[k].step = k
       /\ results[k].action = actions[k].action
       /\ (results[k].status = "error" <=> (last.halted /\ k = Len(results)))
  /\ (last.halted => pc = "done")

C4_Witness ==
  /\ i >= 2 /\ ~last.halted
  /\ Len(results) = 2
  /\ actions[1].action = "Click"
  /\ results[1].action = "click"

FoundElsewhere ==
  /\ last.resolver = "single"
  /\ last.found # NoScope
  /\ last.found # last.pre.current_target

Adopted ==
  /\ last.action = "click" /\ last.found # NoScope
  /\ last.op = "ok" /\ last.page_event = "opened" /\ last.load # "error"

PromotedOver == Append(last.pre.iframe_stack, last.pre.current_target)

C5_OriginalState ==
  FoundElsewhere => current_target = last.found /\ iframe_stack = PromotedOver

C5_PromotionState ==
  FoundElsewhere =>
    /\ last.mid.current_target = last.found
    /\ last.mid.iframe_stack = PromotedOver
    /\ IF Adopted
       THEN /\ root_page # last.pre.root_page
            /\ current_target = PageScope(root_page)
            /\ iframe_stack = <<>>
       ELSE /\ current_target = last.found
            /\ iframe_stack = PromotedOver

\* a step that comes right after a promoting step and runs a search examines
\* the promoted scope first
C5_NextSearch ==
  [][ ( /\ FoundElsewhere /\ ~Adopted
        /\ last'.step = last.step + 1
        /\ last'.resolver # "none"
        /\ last'.examined # <<>> )
      => last'.examined[1] = last.found ]_vars

ClickDone == last.branch = "single" /\ last.action = "click" /\ last.found # NoScope

C6_Effect ==
  /\ LastStatus = "success"
  /\ IF last.page_event = "opened"
     THEN /\ root_page # last.pre.root_page
          /\ current_target = PageScope(root_page)
          /\ iframe_stack = <<>>
     ELSE /\ root_page = last.mid.root_page
          /\ iframe_stack = last.mid.iframe_stack

\* C6 as stated: with or without a new document the click step is a success
C6_Original == ClickDone => C6_Effect

\* C6 (as amended): a click during which a new top-level document opens sets
\* root_document and current_scope to it and empties the stack; a click
\* without new document leaves root_document and the stack as they were after
\* element resolution; both are successes - unless the click call or the load
\* wait of the new document raises a non-timeout host error: then the step is
\* an error, the run halts and root_document and the stack stay as they were
\* after element resolution.
C6_ClickNewPage ==
  ClickDone =>
    IF last.op = "error" \/ last.load = "error"
    THEN /\ LastStatus = "error" /\ last.halted
         /\ root_page = last.mid.root_page
         /\ current_target = last.mid.current_target
         /\ iframe_stack = last.mid.iframe_stack
    ELSE C6_Effect

C6_Witness ==
  /\ ClickDone
  /\ last.page_event = "opened" /\ last.load = "ok"
  /\ last.mid.iframe_stack # <<>>
  /\ iframe_stack = <<>>
  /\ root_page # last.pre.root_page

\* C7: switch_to_parent_frame on an empty stack yields a "warning" record,
\* does not halt the run and leaves current_scope, stack and root_document
\* unchanged; on a non-empty stack it pops the top into current_scope with a
\* "success" record.
C7_SwitchToParent ==
  last.branch = "switch_to_parent_frame" =>
    /\ ~last.halted /\ i = last.step
    /\ root_page = last.pre.root_page
    /\ IF last.pre.iframe_stack = <<>>
       THEN /\ LastStatus = "warning"
            /\ current_target = last.pre.current_target
            /\ iframe_stack = <<>>
       ELSE /\ LastStatus = "success"
            /\ current_target = last.pre.iframe_stack[Len(last.pre.iframe_stack)]
            /\ Append(iframe_stack, current_target) = last.pre.iframe_stack

C7_Witness ==
  /\ last.branch = "switch_to_parent_frame"
  /\ last.step >= 2
  /\ results[1].status = "warning"
  /\ LastStatus \in {"warning", "success"}

\* C8: switch_to_iframe whose named frame becomes available pushes the
\* previous current_scope and makes the named frame current, with a "success"
\* record; without iframe_selector, or when the frame does not become
\* available, the step is an error and the run halts.
C8_SwitchToIframe ==
  last.branch = "switch_to_iframe" =>
    LET sd == actions[last.step]
    IN IF ~Falsy(sd.iframe_selector) /\ last.op = "ok"
       THEN /\ ~last.halted /\ LastStatus = "success"
            /\ current_target = frame_locator(last.pre.current_target, IframeIndex(sd.iframe_selector))
            /\ iframe_stack = Append(last.pre.iframe_stack, last.pre.current_target)
            /\ root_page = last.pre.root_page
       ELSE /\ last.halted /\ LastStatus = "error"
            /\ pc = "done" /\ all_success = FALSE
            /\ Len(results) = last.step

C8_Witness ==
  /\ last.branch = "switch_to_iframe" /\ last.op = "ok"
  /\ last.pre.iframe_stack # <<>>
  /\ Len(iframe_stack) = 2

RequiresSelector(act, sd) ==
  \/ act \in single_element_required_actions
  \/ act \in multiple_elements_actions
  \/ act = "screenshot" /\ sd.selector # None

LacksRequiredField(act, sd) ==
  \/ RequiresSelector(act, sd) /\ Falsy(sd.selector)
  \/ MissingField(act, sd)

\* C9: a step that lacks a field its action requires halts the run with the
\* step's error record before any element search: the resolver is not
\* invoked and the scope state is as it was before the step.
C9_InvalidStepBeforeSearch ==
  (last.branch \in {"single", "multi"} /\ LacksRequiredField(last.action, actions[last.step]))
    => /\ last.halted /\ LastStatus = "error"
       /\ last.resolver = "none"
       /\ current_target = last.pre.current_target
       /\ iframe_stack = last.pre.iframe_stack

\* C10: when the host operation on the resolved element of a single-target
\* step (click included) runs into the step's timeout, the step's record is
\* an error and the run halts with overall_success = false.
C10_TimeoutIsError ==
  (last.branch = "single" /\ last.found # NoScope /\ last.op = "timeout")
    => /\ LastStatus = "error"
       /\ last.halted /\ pc = "done" /\ all_success = FALSE

\* the step just processed got past the target check at the top of the loop
\* and carries the given (lower-cased) kind of action tag
Dispatched(tags) ==
  /\ last.step > 0 /\ last.branch # "target_info"
  /\ Lower(actions[last.step].action) \in tags

UnknownTags == { Lower(sd.action) : sd \in StepSet } \ known_actions

\* C11: a step whose action tag is none of the known actions gets a
\* "skipped" record, invokes neither the resolver nor a host operation,
\* leaves current_scope, the stack and root_document unchanged, and the run
\* goes on with the next step.
C11_UnknownSkipped ==
  Dispatched(UnknownTags) =>
    /\ LastStatus = "skipped"
    /\ last.resolver = "none" /\ last.op = "none"
    /\ last.page_event = "none" /\ last.load = "none"
    /\ Pre = last.pre
    /\ ~last.halted /\ i = last.step /\ Len(results) = last.step

C11_Witness ==
  /\ Dispatched(UnknownTags)
  /\ last.step = 1 /\ Len(actions) = 2
  /\ actions[1].selector # None
  /\ pc = "loop"

\* C12: a whole-document action (wait_page_load, sleep,
\* scroll_page_to_bottom) leaves current_scope and the scope stack exactly as
\* they were before the step, also when current_scope is a nested frame.
C12_WholeDocumentKeepsScope ==
  Dispatched(whole_page_actions) =>
    /\ last.branch = "whole_document"
    /\ current_target = last.pre.current_target
    /\ iframe_stack = last.pre.iframe_stack
    /\ root_page = last.pre.root_page

C12_Witness ==
  /\ Dispatched(whole_page_actions)
  /\ isFrameLocator(last.pre.current_target)
  /\ last.pre.iframe_stack # <<>>
  /\ LastStatus = "success"

\* ------------------------------------------------ properties of the resolver
FoundOne == call.fn = "find_element_dynamically" /\ call.done
FoundAll == call.fn = "find_all_elements_dynamically" /\ call.done

IsPrefix(s, t) == Len(s) <= Len(t) /\ SubSeq(t, 1, Len(s)) = s

\* number of iframe hops from the start scope down to scope s (-1: s is not
\* inside the start scope)
DepthBelow(base, s) ==
  IF s.page = base.page /\ IsPrefix(base.path, s.path)
  THEN Len(s.path) - Len(base.path) ELSE -1

WithinDepth(base, s, max_depth) ==
  DepthBelow(base, s) >= 0 /\ DepthBelow(base, s) <= max_depth

\* C13: in both resolver modes every scope examined or returned lies at most
\* max_depth iframe hops below the start scope; the children of a scope at
\* depth max_depth are never enqueued, so max_depth = 0 examines the start
\* scope only.
C13_DepthBound ==
  (FoundOne \/ FoundAll) =>
    /\ \A k \in 1..Len(call.ret.examined) :
         WithinDepth(call.base_locator, call.ret.examined[k], call.max_depth)
    /\ \A k \in 1..Len(call.ret.queue) :
         WithinDepth(call.base_locator, call.ret.queue[k].scope, call.max_depth)
    /\ FoundOne /\ call.ret.scope # NoScope =>
         WithinDepth(call.base_locator, call.ret.scope, call.max_depth)
    /\ FoundAll =>
         \A k \in 1..Len(call.ret.found_elements) :
           WithinDepth(call.base_locator, call.ret.found_elements[k].scope, call.max_depth)
    /\ call.max_depth = 0 => SeqToSet(call.ret.examined) \subseteq {call.base_locator}

\* the selector matches below the depth limit only, the search had the time to
\* visit every scope within the limit, and nothing is found
C13_Witness ==
  /\ FoundOne \/ FoundAll
  /\ \E s \in ScopesOfPage(0) :
       call.matches[s] > 0 /\ DepthBelow(call.base_locator, s) > call.max_depth
  /\ call.ret.queue = <<>> /\ Len(call.ret.examined) >= 2
  /\ FoundOne => call.ret.scope = NoScope
  /\ FoundAll => call.ret.found_elements = <<>>

\* the scopes within max_depth of the start scope, level by level, the
\* iframes of a document in their order of enumeration
RECURSIVE Level(_, _)
Level(base, d) ==
  IF d = 0 THEN <<base>>
  ELSE LET above == Level(base, d - 1)
           Below[k \in 0..Len(above)] ==
             IF k = 0 THEN <<>>
             ELSE Below[k - 1] \o [c \in 1..NumChildren(above[k].path) |-> frame_locator(above[k], c)]
       IN Below[Len(above)]

RECURSIVE BreadthFirst(_, _)
BreadthFirst(base, max_depth) ==
  IF max_depth = 0 THEN Level(base, 0)
  ELSE BreadthFirst(base, max_depth - 1) \o Level(base, max_depth)

\* position in the sequence of the first scope in which the selector matches
\* (0: none)
FirstMatch(order, matches) ==
  IF \E k \in 1..Len(order) : matches[order[k]] > 0
  THEN CHOOSE k \in 1..Len(order) :
         matches[order[k]] > 0 /\ \A j \in 1..(k - 1) : matches[order[j]] = 0
  ELSE 0

\* C14: with a time budget that suffices, the single-element search returns
\* the first scope, in breadth-first order from the start scope, in which the
\* selector matches: the start scope is examined before any child, a scope
\* at depth d before any scope at depth d+1, and no scope after the first
\* matching one is examined.
C14_BreadthFirstFirstWins ==
  FoundOne =>
    LET order == BreadthFirst(call.base_locator, call.max_depth)
        first == FirstMatch(order, call.matches)
    IN /\ (first > 0 /\ call.budget >= first) =>
            /\ call.ret.scope = order[first]
            /\ call.ret.examined = SubSeq(order, 1, first)
       /\ (first = 0 /\ call.budget >= Len(order)) =>
            /\ call.ret.scope = NoScope
            /\ call.ret.examined = order

\* the selector matches in a grandchild and, later in breadth-first order, in
\* a child of the start scope: the child wins
C14_Witness ==
  /\ FoundOne /\ call.ret.scope # NoScope
  /\ DepthBelow(call.base_locator, call.ret.scope) = 1
  /\ \E s \in ScopesOfPage(0) :
       /\ call.matches[s] > 0 /\ DepthBelow(call.base_locator, s) = 2
       /\ s.path[Len(call.base_locator.path) + 1] < call.ret.scope.path[Len(call.base_locator.path) + 1]

RECURSIVE SumMatches(_, _)
SumMatches(scopes, matches) ==
  IF scopes = <<>> THEN 0 ELSE matches[Head(scopes)] + SumMatches(Tail(scopes), matches)

\* C15: the multi-element search returns exactly the matches of the scopes it
\* visited within the depth and time limits: as many entries as the sum of
\* the per-scope match counts, each tagged with the scope that contains it,
\* and no element twice.
C15_AllMatchesOfVisited ==
  FoundAll =>
    LET found == call.ret.found_elements
    IN /\ Len(found) = SumMatches(call.ret.examined, call.matches)
       /\ \A k \in 1..Len(found) :
            /\ found[k].scope \in SeqToSet(call.ret.examined)
            /\ found[k].elem \in 1..call.matches[found[k].scope]
       /\ \A j, k \in 1..Len(found) : found[j] = found[k] => j = k

C15_Witness ==
  /\ FoundAll
  /\ Len(call.ret.found_elements) = 2
  /\ call.ret.found_elements[1].scope = call.ret.found_elements[2].scope
  /\ isFrameLocator(call.ret.found_elements[1].scope)

\* the search stopped because its time ran out while scopes were queued
TimedOut == FoundAll /\ call.ret.queue # <<>>

\* C16: when the time of a multi-element search runs out while scopes are
\* still queued, it stops expanding and returns every match collected so
\* far: nothing already collected is dropped, and the result is a list, not
\* an error.
C16_TimeoutKeepsMatches ==
  TimedOut =>
    /\ Len(call.ret.examined) = call.budget
    /\ \A k \in 1..Len(call.ret.examined) :
         LET s == call.ret.examined[k]
         IN \A e \in 1..call.matches[s] :
              [elem |-> e, scope |-> s] \in SeqToSet(call.ret.found_elements)

C16_Witness ==
  /\ TimedOut
  /\ call.ret.found_elements # <<>>
  /\ \E s \in ScopesOfPage(0) :
       call.matches[s] > 0 /\ \E k \in 1..Len(call.ret.queue) : call.ret.queue[k].scope = s

\* a multi-target step that is complete and whose search came back empty
NothingMatched ==
  /\ Dispatched(multiple_elements_actions)
  /\ ~LacksRequiredField(last.action, actions[last.step])
  /\ last.resolver = "multi" /\ last.count = 0

\* C17: a multi-target step (get_all_attributes, get_all_text_contents) whose
\* selector matches nothing is not fatal: its record is a "success" with an
\* empty payload list, and the run goes on.
C17_EmptyMultiIsSuccess ==
  NothingMatched =>
    /\ LastStatus = "success"
    /\ ~last.halted /\ i = last.step /\ Len(results) = last.step
    /\ last.list_key # "none"

\* ------------------------------------------ properties of the attribute steps
GotAttribute == call.fn = "get_attribute" /\ call.done /\ call.ret.status = "success"
GotAllAttributes == call.fn = "get_all_attributes" /\ call.done /\ call.ret.status = "success"

AbsoluteUrl(k) == urljoin(current_base_url, call.hrefs[k])

\* the positions of the links of the call that lead to a PDF
IsPdfLink(k) == call.reads[k] = "ok" /\ call.hrefs[k] # None /\ EndsWithPdf(AbsoluteUrl(k))
PdfLinks == { k \in 1..Len(call.hrefs) : IsPdfLink(k) }

\* C18: get_all_attributes with attribute_name = "href" over N matched links
\* of which K lead to a PDF runs exactly K fetch-and-extract operations, and
\* its record carries pdf_texts of length N, null at the N - K other
\* positions.
C18_HrefFanOut ==
  (GotAllAttributes /\ Lower(call.attribute_name) = "href" /\ call.hrefs # <<>>) =>
    /\ Len(call.ret.fetched) = Cardinality(PdfLinks)
    /\ call.ret.pdf_key = "pdf_texts"
    /\ Len(call.ret.pdf) = Len(call.hrefs)
    /\ \A k \in 1..Len(call.hrefs) \ PdfLinks : call.ret.pdf[k] = None

\* the step is one that downloads the PDFs its links lead to
ProcessesPdfs ==
  \/ GotAttribute /\ Lower(call.attribute_name) = "href"
  \/ GotAllAttributes /\ Lower(call.attribute_name) = "pdf"

Occurrences(seq, x) == Cardinality({ j \in 1..Len(seq) : seq[j] = x })

\* C19: within one get_attribute / get_all_attributes step every distinct
\* absolute URL ending in .pdf is fetched and extracted exactly once, also
\* when several matched elements lead to the same URL.
C19_OncePerUrl ==
  ProcessesPdfs =>
    \A k \in PdfLinks : Occurrences(call.ret.fetched, AbsoluteUrl(k)) = 1

\* C20: a PDF that cannot be fetched or read never fails the step: the
\* record is a "success", the URL of the link is kept, and the failure is
\* noted as an error-marker string at the position of the link - for
\* get_attribute and for the fan-out of a multi-target step alike.
C20_PdfFailureInline ==
  ProcessesPdfs =>
    \A k \in PdfLinks :
      call.responses[k] \in {"corrupt", "unreachable"} =>
        /\ call.ret.status = "success"
        /\ call.ret.list_key # "none" /\ call.ret.list[k] = AbsoluteUrl(k)
        /\ call.ret.pdf_key # "none" /\ call.ret.pdf[k] \in ErrorMarkers

\* C21: in a multi-target read over N matched elements, a read that times
\* out or fails leaves null at the position of its element and does not fail
\* the step: the payload list (attribute_list, url_lists, text_list) has
\* length N, in the order of the matched elements, and the record is a
\* "success".
ReadMany ==
  /\ call.fn \in {"get_all_attributes", "get_all_text_contents"} /\ call.done
  /\ ~(call.fn = "get_all_attributes" /\ Falsy(call.attribute_name))

ReadValue(k) ==
  IF call.fn = "get_all_attributes" /\ Lower(call.attribute_name) = "href" /\ call.hrefs[k] # None
  THEN AbsoluteUrl(k) ELSE call.hrefs[k]

C21_FailedReadIsNull ==
  (/\ ReadMany
   /\ \/ call.fn = "get_all_text_contents"
      \/ Len(call.hrefs) >= 1 /\ Lower(call.attribute_name) \notin {"pdf", "content"}) =>
    /\ call.ret.status = "success"
    /\ call.ret.list_key \in {"attribute_list", "url_lists", "text_list"}
    /\ Len(call.ret.list) = Len(call.hrefs)
    /\ \A k \in 1..Len(call.hrefs) :
         call.ret.list[k] = IF call.reads[k] = "ok" THEN ReadValue(k) ELSE None

C21_Witness ==
  /\ ReadMany /\ call.ret.list_key = "attribute_list" /\ Len(call.hrefs) = 2
  /\ call.reads[1] = "timeout" /\ call.reads[2] = "ok" /\ call.hrefs[2] # None
  /\ call.ret.list[1] = None /\ call.ret.list[2] = call.hrefs[2]

\* C25: a multi-target step never changes current_target, iframe_stack or
\* root_page, also when its elements are found in nested frames; the state
\* changes only in a single-target step whose search succeeded (promotion, or
\* a click that opens a new page) and in the scope-switch actions.
ScopeMoved == last.step > 0 /\ Pre # last.pre

C25_MultiKeepsScope ==
  /\ last.branch = "multi" => Pre = last.pre /\ last.mid = last.pre
  /\ ScopeMoved =>
       \/ last.branch = "single" /\ last.found # NoScope
       \/ last.branch \in {"switch_to_iframe", "switch_to_parent_frame"}

C25_Witness ==
  /\ last.branch = "multi" /\ LastStatus = "success"
  /\ last.count = MaxMatches /\ Len(last.examined) >= 2
  /\ isFrameLocator(last.pre.current_target) /\ last.pre.iframe_stack # <<>>
  /\ Pre = last.pre

PdfText == "(text of the PDF)"

\* the link at position k leads to a PDF that is fetched and read
ReadablePdf(k) == k \in PdfLinks /\ call.responses[k] = "pdf"

\* C40: in get_all_attributes with attribute "pdf", every matched element
\* whose href leads to a .pdf URL that is fetched and extracted has the text
\* at its own index of pdf_texts and every other index is null, also when
\* two or more matched elements lead to the same URL.
C40_TextAtOwnIndex ==
  (/\ GotAllAttributes /\ Lower(call.attribute_name) = "pdf"
   /\ \E k \in 1..Len(call.hrefs) : ReadablePdf(k)
   /\ \A k \in PdfLinks : call.responses[k] = "pdf") =>
    /\ call.ret.pdf_key = "pdf_texts"
    /\ Len(call.ret.pdf) = Len(call.hrefs)
    /\ \A k \in 1..Len(call.hrefs) :
         call.ret.pdf[k] = IF ReadablePdf(k) THEN PdfText ELSE None

\* ------------------------------------------------- properties of utils.py
Downloaded == call.fn = "download_pdf_async" /\ call.done

\* the response is an answer with a 2xx status whose body could be read
GoodResponse == call.get = "ok" /\ call.ok /\ call.read = "ok"

\* the claim as it was made, for both copies of the function
C27_DownloadNeverRaises ==
  Downloaded =>
    /\ call.ret.exc = "none"
    /\ call.ret.value = IF GoodResponse /\ call.body # "" THEN call.body ELSE None

\* C27: download_pdf_async never raises: it returns None for a status that
\* is not 2xx, for a timeout and for any other exception, and the bytes of
\* the body otherwise, whatever the content-type; for an empty body the
\* function of utils.py returns None and the copy in main_mcp.py returns
\* the empty bytes.
C27_DownloadNeverRaisesTwoCopies ==
  Downloaded =>
    /\ call.ret.exc = "none"
    /\ call.ret.value =
         IF GoodResponse /\ (call.body # "" \/ call.impl = "main_mcp") THEN call.body ELSE None

C27_Witness ==
  /\ Downloaded /\ call.impl = "utils" /\ GoodResponse
  /\ call.content_type = "text/html" /\ call.body = "<html>"
  /\ call.ret = Returns("<html>")

Extracted == call.fn = "extract_text_from_pdf_sync" /\ call.done

\* C28: extract_text_from_pdf_sync never raises: it returns the text, the
\* no-text marker or a string starting with "Error:"; a page that fails
\* leaves its error marker in the text while the other pages are processed;
\* and a document that was opened is closed on every path.
C28_ExtractNeverRaises ==
  Extracted =>
    /\ call.ret.exc = "none"
    /\ call.ret.kind \in {"text", "no_text", "error"}
    /\ \A k \in 1..Len(call.pages) :
         call.open = "ok" /\ call.pages[k] \in {"text", "fail"} =>
           \E j \in 1..Len(call.ret.parts) : call.ret.parts[j].page = k
    /\ call.ret.opened => call.ret.closed

\* the same without the closing of the document
C28_ExtractReturnsString ==
  Extracted =>
    /\ call.ret.exc = "none"
    /\ call.ret.kind \in {"text", "no_text", "error"}
    /\ \A k \in 1..Len(call.pages) :
         call.open = "ok" /\ call.pages[k] \in {"text", "fail"} =>
           \E j \in 1..Len(call.ret.parts) : call.ret.parts[j].page = k

\* ------------------------------------------------- properties of one run
\* the run is over: the function returned or an exception left it
RunOver == call.fn = "run" /\ (call.returned \/ call.raised)

Acquired ==
  SelectSeq(<<"context", "browser", "playwright">>, LAMBDA res : call[res])

\* the claim as it was made, for both copies of the function
C22_TeardownGuaranteed ==
  RunOver =>
    /\ ~call.raised
    /\ call.closes = Acquired

\* C22: on every path out of run_playwright_automation_async (success, step
\* error, navigation failure, exception during setup) every acquired
\* resource has had its close or stop attempted before the function returns,
\* in the order context, browser, engine, and a close that fails does not
\* prevent the others - except that playwright_launcher.py does not try to
\* close a browser that is no longer connected.
C22_TeardownUnlessDisconnected ==
  RunOver =>
    /\ ~call.raised
    /\ call.closes =
         SelectSeq(Acquired,
                   LAMBDA res : ~(res = "browser" /\ call.impl = "playwright_launcher"
                                                  /\ ~call.connected))

C22_Witness ==
  /\ call.fn = "run" /\ call.at = "adapter_out" /\ call.returned
  /\ call.failed_at = "goto"
  /\ call.close_failed = {"context", "browser"}
  /\ call.closes = <<"context", "browser", "playwright">>

\* the awaited calls of the try block that come before the first step
SetupStages == {"start", "launch", "new_context", "new_page", "goto"}

\* C23: when the start of the engine, the launch, the creation of context
\* or page, or the first navigation fails, run_playwright_automation_async
\* does not raise: it returns (False, results) and results is exactly one
\* synthesized error record whose step is the overall marker; the record is
\* synthesized only when the last record is not already an error, so the
\* results of a failed step are returned as they are.
C23_SetupFailureSynthesized ==
  RunOver =>
    /\ call.returned
    /\ call.failed_at \in SetupStages =>
         /\ ~call.all_success
         /\ call.final_results = <<Record(Overall, "error", "")>>
    /\ call.failed_at = "none" =>
         /\ call.final_results = call.exec
         /\ \A k \in 1..Len(call.final_results) : call.final_results[k].step # Overall
    /\ call.final_results # <<>> =>
         \A k \in 1..(Len(call.final_results) - 1) : call.final_results[k].status # "error"

C23_Witness ==
  /\ RunOver /\ call.returned /\ call.failed_at = "launch"
  /\ call.playwright /\ ~call.browser
  /\ call.final_results = <<Record(Overall, "error", "")>>
  /\ call.closes = <<"playwright">>

\* the process of main.py has ended
CliEnded == call.fn = "run" /\ call.adapter = "cli" /\ call.done

\* C29: the command line exits with code 0 exactly when the run returned
\* all_success = True (and printing and writing the results raised nothing),
\* and with code 1 in every other case: no input file, invalid or incomplete
\* input, a failed step or setup, an unexpected exception.
C29_ExitCode ==
  CliEnded =>
    /\ call.exit_code \in {0, 1}
    /\ call.exit_code = 0 <=> (call.returned /\ call.all_success /\ call.output = "ok")
    /\ call.input # "ok" => call.exit_code = 1 /\ call.at = "end" /\ ~call.playwright

C29_Witness ==
  /\ CliEnded /\ call.exit_code = 1 /\ call.returned /\ ~call.all_success
  /\ call.output = "ok" /\ call.failed_at = "none"
  /\ call.final_results[Len(call.final_results)].status = "error"

\* the tool of the RPC server has answered
RpcEnded == call.fn = "run" /\ call.adapter = "rpc" /\ call.done

\* C30: the tool returns the serialized results when the run succeeds; when
\* the run returns all_success = False the error that reaches the caller is
\* the task-failed error with the result JSON, not the error for an
\* unexpected exception of the invocation.
C30_TaskFailedDistinct ==
  (RpcEnded /\ call.returned /\ call.output = "ok") =>
    /\ call.all_success => call.tool = "results_json"
    /\ ~call.all_success => call.tool = "ToolError: Web-Runner task failed"

\* what does hold: results on success, a ToolError otherwise
C30_ToolErrorOnFailure ==
  RpcEnded =>
    call.tool = IF call.returned /\ call.output = "ok" /\ call.all_success
                THEN "results_json" ELSE "ToolError: Unhandled server error"

\* ------------------------------------------ properties of the sub-operations
SubOperationsOpen ==
  call.fn = "fan_out" /\ \E k \in 1..Len(call.tasks) : call.tasks[k] # "done"

\* C24: steps never overlap: every sub-operation a step has fanned out
\* (reads, downloads, extractions, page visits) has ended before the record
\* of the step is appended and before the next step starts.
C24_StepsNeverOverlap ==
  call.fn = "fan_out" =>
    /\ call.unfinished = 0
    /\ SubOperationsOpen => call.appended = call.step - 1
    /\ call.phase = 0 => call.appended = call.step

C24_Witness ==
  /\ call.fn = "fan_out" /\ call.step = 2 /\ call.kind = "pdf" /\ call.phase = 3
  /\ Len(call.tasks) = 2 /\ call.tasks[1] = "running" /\ call.tasks[2] = "done"
  /\ call.appended = 1

ContentRecord == call.fn = "fan_out" /\ call.record.kind = "content"

\* C26: in a "content" step at most 5 page visits are in progress at any
\* moment, for any number of URLs, and the texts of the record are in the
\* order of the URLs: the text at position k is the text of the k-th URL.
C26_BoundedVisitsInOrder ==
  /\ Visiting => Cardinality(InFlight(call.tasks)) <= SemaphoreLimit
  /\ ContentRecord =>
       \A k \in 1..Len(call.record.urls) : call.record.scraped_texts[k] = VisitText(k)

\* what holds: the bound on the visits, and the text of a URL at the last
\* position of that URL
C26_BoundedVisits ==
  /\ Visiting => Cardinality(InFlight(call.tasks)) <= SemaphoreLimit
  /\ ContentRecord =>
       \A k \in 1..Len(call.record.urls) :
         call.record.scraped_texts[k] =
           IF \E k2 \in (k + 1)..Len(call.record.urls) : call.record.urls[k2] = call.record.urls[k]
           THEN None ELSE VisitText(k)

\* the bound is reached: five visits in progress and a sixth waiting
C26_FiveVisiting ==
  /\ Visiting /\ Cardinality(InFlight(call.tasks)) = SemaphoreLimit
  /\ \E k \in 1..Len(call.tasks) : call.tasks[k] = "pending"

\* every visit that was created ends and the step gets its record
C26_EveryUrlVisited ==
  \A n \in 1..MaxSteps :
    (call.fn = "fan_out" /\ call.step = n /\ call.phase > 0) ~> (call.appended >= n)

\* --------------------------------------- properties of the scope stack
AtStepStart == InLoop

\* a switch_to_parent_frame step that found the stack empty while the
\* current scope was an iframe (the branch "current_target = root_page")
ResetToRootTaken ==
  /\ last.branch = "switch_to_parent_frame"
  /\ last.pre.iframe_stack = <<>>
  /\ isFrameLocator(last.pre.current_target)

C35_OneErrorLast ==
  pc = "done" =>
    \A k \in 1..Len(final_results) :
      final_results[k].status = "error" => k = Len(final_results)

C35_Witness ==
  /\ pc = "done" /\ Len(final_results) = 2
  /\ final_results[1].status = "warning"
  /\ final_results[2].status = "error"

Searched == last.resolver \in {"single", "multi"}

\* C37: the resolver examines the start scope and scopes below it, never an
\* ancestor or a sibling of the start scope, and finds an element only in a
\* scope it examined; so once current_scope is an iframe, a single-target
\* step whose element is in the parent or the top-level document only comes
\* back NOT_FOUND and halts the run with an error record.
C37_SearchStaysBelow ==
  Searched =>
    /\ \A k \in 1..Len(last.examined) :
         DepthBelow(last.pre.current_target, last.examined[k]) >= 0
    /\ last.resolver = "single" =>
         IF last.found = NoScope
         THEN last.halted /\ pc = "done" /\ LastStatus = "error" /\ ~all_success
         ELSE last.found \in SeqToSet(last.examined)

\* a single-target step after a switch into an iframe: the iframe and what
\* is below it were examined, nothing was found, the run halted
C37_Witness ==
  /\ last.resolver = "single" /\ last.found = NoScope /\ last.halted
  /\ last.step >= 2
  /\ isFrameLocator(last.pre.current_target)
  /\ Len(last.examined) >= 2

\* the step just done promoted current_scope by two levels or more
PromotedDeep ==
  /\ FoundElsewhere /\ ~Adopted /\ ~last.halted
  /\ DepthBelow(last.pre.current_target, last.found) >= 2

\* C38: a promotion pushes the previous current_scope only, not the
\* sub-documents between it and the found scope: after a promotion from S
\* to a scope two or more levels below S, one switch_to_parent_frame makes S
\* current again and leaves the stack as it was before the promoting step.
C38_PromotionPushesOnlyPrevious ==
  /\ [](PromotedDeep => iframe_stack = Append(last.pre.iframe_stack, last.pre.current_target))
  /\ [][(PromotedDeep /\ last'.step = last.step + 1
           /\ last'.branch = "switch_to_parent_frame") =>
         /\ current_target' = last.pre.current_target
         /\ iframe_stack' = last.pre.iframe_stack]_vars

C38_Witness ==
  /\ last.branch = "switch_to_parent_frame" /\ last.step >= 2
  /\ Len(last.pre.current_target.path) >= 2
  /\ Len(last.pre.iframe_stack) = 1
  /\ current_target = PageScope(root_page) /\ iframe_stack = <<>>
  /\ LastStatus = "success"

\* ------------------------------------ properties of the step error path
StepFailed == call.fn = "step_error" /\ call.done

\* C31: the screenshot of a failed step is best-effort: it is attempted only
\* while root_page is open, and whether it is saved, fails or is not
\* attempted, exactly one error record is appended and (False, results) is
\* returned; the record carries a screenshot path only when the screenshot
\* was saved.
C31_ScreenshotBestEffort ==
  StepFailed =>
    /\ call.ret.exc = "none" /\ ~call.ret.all_success
    /\ Len(call.ret.results) = Len(call.results) + 1
    /\ SubSeq(call.ret.results, 1, Len(call.results)) = call.results
    /\ LET rec == call.ret.results[Len(call.ret.results)]
       IN /\ rec.status = "error" /\ rec.step = call.step
          /\ rec.error_screenshot # None <=>
               (~call.root_closed /\ call.makedirs = "ok" /\ call.shot = "ok")
    /\ call.root_closed => call.ret.screenshot = "not_attempted"
    /\ ~call.root_closed => call.ret.screenshot \in {"saved", "failed"}

C31_Witness ==
  /\ StepFailed /\ call.step = 2 /\ ~call.root_closed
  /\ call.shot = "PlaywrightTimeoutError" /\ call.ret.screenshot = "failed"
  /\ Len(call.ret.results) = 2
  /\ call.ret.results[2].status = "error" /\ call.ret.results[2].error_screenshot = None

\* ---------------------------------- properties of the search, step by step
SearchDone == call.at = "done"

\* the loop of the single mode stands at its head with scopes queued and the
\* time test there fails
TimeIsUp ==
  /\ SingleMode /\ call.at = "while" /\ call.queue # <<>>
  /\ (call.elapsed >= call.timeout \/ call.timeout - call.elapsed < 100)

QueuedScopes(c) == { c.queue[k].scope : k \in 1..Len(c.queue) }

\* C32: the single-element search answers NOT_FOUND as soon as, at a dequeue,
\* the elapsed time has reached the timeout or less than 100 ms remain, even
\* with scopes still queued; the queued scopes are never examined.
C32_TimeUpAtDequeue ==
  /\ [][TimeIsUp => /\ call'.at = "done" /\ call'.ret = NoScope
                    /\ call'.queue = call.queue /\ call'.examined = call.examined]_vars
  /\ [](SearchDone => QueuedScopes(call) \cap SeqToSet(call.examined) = {})

\* a search ended by the clock with less than 100 ms, but not nothing, left
\* and an iframe still queued
C32_Witness ==
  /\ SearchDone /\ SingleMode /\ call.ret = NoScope /\ call.queue # <<>>
  /\ call.elapsed < call.timeout /\ call.timeout - call.elapsed < 100
  /\ Len(call.examined) >= 2

\* the iframe the for-loop stands at
ChildAt(c) == frame_locator(c.current_scope, c.nth)

\* a step that checks one iframe of the current scope
ChecksIframe == call.at = "for" /\ call'.at = "for" /\ call' # call

\* C33: an iframe that fails or times out when it is materialized as a child
\* scope is skipped and the search goes on: the loop moves to the next
\* sibling, a sibling that materializes is queued at depth + 1, every queued
\* scope is examined unless the search ends before, and an element the
\* search reaches in a later sibling is returned with that sibling.
C33_FailedChildSkipped ==
  /\ [][ChecksIframe =>
         /\ call'.nth = call.nth + 1
         /\ call'.current_scope = call.current_scope
         /\ ChildAt(call) \in call'.skipped => call'.queue = call.queue
         /\ ChildAt(call) \notin call'.skipped =>
              call'.queue = Append(call.queue, [scope |-> ChildAt(call),
                                                depth |-> call.current_depth + 1])]_vars
  /\ [][(call.at = "element" /\ SingleMode /\ call'.wait.kind = "element"
           /\ call'.faults = call.faults /\ call'.elapsed = call.elapsed) =>
         (call'.at = "done" /\ call'.ret = call.current_scope)]_vars
  /\ [](SearchDone /\ call.queue = <<>> /\ call.ret = NoScope =>
          call.visited_scope_ids \subseteq SeqToSet(call.examined))

\* the element is returned from an iframe whose earlier sibling was skipped
C33_Witness ==
  /\ SearchDone /\ SingleMode /\ call.ret # NoScope /\ isFrameLocator(call.ret)
  /\ \E s \in call.skipped :
       /\ Len(s.path) = Len(call.ret.path)
       /\ SubSeq(s.path, 1, Len(s.path) - 1) = SubSeq(call.ret.path, 1, Len(s.path) - 1)
       /\ s.path[Len(s.path)] < call.ret.path[Len(s.path)]

\* C36: every bounded wait of the resolver is granted no more than the time
\* that remains when it is issued: the element wait of a scope is
\* max(50, min(2000, remaining - 50)) and is issued with at least 100 ms
\* left, the wait for a child iframe is max(50, min(iframe timeout,
\* remaining - 50)) and is issued with at least 50 ms left; so the time spent
\* waiting never passes the overall timeout.
C36_WaitsWithinBudget ==
  /\ call.wait.kind = "element" =>
       /\ call.wait.remaining >= 100
       /\ call.wait.granted = Max(50, Min(2000, call.wait.remaining - 50))
  /\ call.wait.kind = "iframe" =>
       /\ call.wait.remaining >= 50
       /\ call.wait.granted = Max(50, Min(IFRAME_LOCATOR_TIMEOUT, call.wait.remaining - 50))
  /\ call.wait.kind # "none" => call.wait.granted <= call.wait.remaining
  /\ call.elapsed <= call.timeout

\* an iframe wait issued with exactly 50 ms left is granted all of them
C36_Witness ==
  /\ call.wait.kind = "iframe" /\ call.wait.remaining = 50
  /\ call.wait.granted = call.wait.remaining

\* C39: both resolver modes terminate whatever the time budget: each dequeue
\* removes one queued scope, no scope is queued twice, and only scopes at a
\* depth below max_depth queue children, so the queue runs empty; the single
\* mode then answers NOT_FOUND and the multi mode its list.
C39_Terminates ==
  /\ <>SearchDone
  /\ [][call.at = "while" /\ call'.at = "element" => Len(call'.queue) = Len(call.queue) - 1]_vars
  /\ [][\A k \in 1..Len(call'.queue) :
          /\ \A j \in 1..Len(call'.queue) : call'.queue[j].scope = call'.queue[k].scope => j = k
          /\ call'.queue[k].scope \notin SeqToSet(call'.examined) \cup {call'.current_scope}
          /\ call'.queue[k].depth <= call.max_depth]_vars
  /\ [](SearchDone /\ call.queue = <<>> /\ SingleMode /\ call.wait.kind # "element" =>
          call.ret = NoScope)

\* a search with time to spare ran every scope of the tree through the queue
C39_Witness ==
  /\ SearchDone /\ call.queue = <<>> /\ call.timeout - call.elapsed >= 100
  /\ call.base_locator = PageScope(0) /\ call.max_depth = DYNAMIC_SEARCH_MAX_DEPTH
  /\ Len(call.examined) = Cardinality({s \in ScopesOfPage(0) :
                                        Len(s.path) <= DYNAMIC_SEARCH_MAX_DEPTH})

====
